---- MODULE Spec2Model ----
(***************************************************************************)
(* Job-scraping subsystem of Resume_parser: the legal (API/robots-aware)   *)
(* orchestrator of legal_job_scraper.py, its compliance gate and rate      *)
(* step, and the deduplicators of legal_job_scraper.py and                 *)
(* advanced_job_scraper.py.                                                *)
(*                                                                         *)
(* Strings are sequences of one-character strings, so that lower(),        *)
(* split('_') and f-string concatenation are computed, not assumed.        *)
(* Durations are in tenths of a second.                                    *)
(***************************************************************************)
EXTENDS Integers, Sequences, FiniteSets, TLC

VARIABLES
    \* ---- deduplicator component (advanced_job_scraper.py / legal_job_scraper.py)
    d_pc,            \* "indeed" | "glassdoor" | "dedup" | "again" | "done"
    d_all_jobs,      \* all_jobs: per-source results concatenated in source order
    d_unique_jobs,   \* remove_duplicates_advanced(all_jobs)
    d_exact_jobs,    \* remove_duplicates(all_jobs)
    d_unique_again,  \* remove_duplicates_advanced applied to its own output
    d_exact_again,   \* remove_duplicates applied to its own output
    d_source_results \* source_results of scrape_all_sources_advanced: name -> count

dedup_vars == <<d_pc, d_all_jobs, d_unique_jobs, d_exact_jobs, d_unique_again, d_exact_again,
                d_source_results>>

VARIABLES
    \* ---- LegalJobScraper (legal_job_scraper.py)
    config,          \* self.config: [retry_attempts, respect_robots, delay_min]
    env,             \* os.environ: the API-key variables that are set
    robots_cache,    \* self.robots_cache: base_url -> RobotFileParser
    robots_reads,    \* base_url -> number of rp.read() calls (robots.txt retrievals)
    pc,              \* position in scrape_jobs_comprehensive
    idx,             \* position of the loop over self.job_sources
    src_jobs,        \* jobs: the listings the current source returned
    all_jobs,        \* all_jobs
    unique_jobs,     \* the list scrape_jobs_comprehensive returns
    path,            \* source -> "none" | "api" | "web" | "skip": the path selected
    gate,            \* source -> outcome of check_robots_txt for the source
    fetches,         \* source -> number of session.get calls issued to the source
    outcome          \* source -> outcome of the source's fetch

scraper_vars == <<config, env, robots_cache, robots_reads>>
run_vars == <<pc, idx, src_jobs, all_jobs, unique_jobs, path, gate, fetches, outcome>>

VARIABLES
    \* ---- calls of check_robots_txt on one scraper
    g_calls,         \* number of calls so far
    g_last,          \* the last call: its arguments, its result, what rp.read() did
    g_failed,        \* base URLs whose robots.txt retrieval has raised
    \* ---- the rate step of the loop of scrape_jobs_comprehensive, with a clock
    r_pc,            \* "fetch" | "delay" | "returned"
    r_idx,           \* position of the loop over self.job_sources
    r_runs,          \* calls of scrape_jobs_comprehensive completed
    r_watch,         \* the source whose request times are observed
    r_gap,           \* time since the last fetch to r_watch (-1: none yet)
    r_spacing,       \* time between the last two fetches to r_watch (-1: fewer than two)
    r_source,        \* source of the last respectful_delay call ("": none yet)
    r_delay          \* the delay the last respectful_delay call slept

gate_vars == <<g_calls, g_last, g_failed>>
rate_vars == <<r_pc, r_idx, r_runs, r_watch, r_gap, r_spacing, r_source, r_delay>>

VARIABLES
    \* ---- JobScrapingAPI.scrape_jobs_for_api
    api_result       \* what the caller of scrape_jobs_for_api got (success "none": not called)

api_vars == <<api_result>>

VARIABLES
    \* ---- self.session of one LegalJobScraper, used by concurrent fetches
    s_max_concurrent, \* config.max_concurrent, the limit of the session's connector
    s_task            \* fetch -> "idle" | "waiting" | "inflight" | "done"

session_vars == <<s_max_concurrent, s_task>>

VARIABLES
    \* ---- the proxy rotator of one AdvancedJobScraper (advanced_job_scraper.py)
    a_config,            \* self.config: [use_proxies, use_cloudflare_bypass, random_delays,
                         \*               user_agent_rotation]
    a_rotation_interval, \* ProxyConfig.rotation_interval
    proxies,             \* self.proxies
    current_proxy_index, \* self.current_proxy_index
    request_count,       \* self.request_count
    a_last,              \* the last get_next_proxy call: the source it was for, its result
    a_request            \* make_request_with_protection call -> [st, proxy, index]

proxy_vars == <<a_config, a_rotation_interval, proxies, current_proxy_index, request_count,
                a_last, a_request>>

VARIABLES
    \* ---- the listings of one fetched page, as each scraper turns them into jobs
    n_page,          \* the raw listings of the page (job cards / JSON items)
    n_done,          \* the scrapers that have gone through the page
    n_jobs           \* scraper -> the jobs list it returns

norm_vars == <<n_page, n_done, n_jobs>>

VARIABLES
    \* ---- the fields extracted from one description
    e_words,         \* the words the description is made of
    e_description,   \* the description: the words joined by blanks
    e_done,          \* the extraction functions applied so far
    e_job_type,      \* extract_job_type_from_description(description)
    e_skills,        \* extract_skills_from_text(description)
    e_requirements   \* extract_requirements(description)

extract_vars == <<e_words, e_description, e_done, e_job_type, e_skills, e_requirements>>

VARIABLES
    \* ---- the page loop of scrape_indeed_advanced
    i_pc,            \* "request" | "sleep" | "returned"
    i_pages,         \* the page requests issued: [html, after_sleep]
    i_slept          \* the rate-limiting sleep ran since the last page request

page_vars == <<i_pc, i_pages, i_slept>>

\* the variables of the extraction of listings and of their fields
adapter_vars == <<norm_vars, extract_vars, page_vars>>

\* the variables outside LegalJobScraper and the deduplicator component
ext_vars == <<api_vars, session_vars, proxy_vars, adapter_vars>>

vars == <<dedup_vars, scraper_vars, run_vars, gate_vars, rate_vars, ext_vars>>

(***************************************************************************)
(* Bounds                                                                  *)
(***************************************************************************)
\* listings one source hands to the deduplicator component
MaxPerSource == 2
\* calls of check_robots_txt on one scraper
MaxCalls == 3
\* calls of scrape_jobs_comprehensive on one scraper, one after the other
MaxRuns == 2
\* network events of one run of scrape_jobs_comprehensive: listings returned plus
\* faults (robots.txt unreadable or disallowing, a fetch failing)
MaxEvents == 2
\* fetches started concurrently on one session
MaxTasks == 6
\* calls of make_request_with_protection on one scraper, started one after the
\* other and running concurrently
MaxRequests == 11
\* raw listings on one fetched page
MaxItems == 3
\* words of one description
MaxWords == 3

(***************************************************************************)
(* Strings                                                                 *)
(***************************************************************************)
UpperCase == {"A", "B", "C", "D", "E", "F", "G", "H", "I", "J", "K", "L", "M",
              "N", "O", "P", "Q", "R", "S", "T", "U", "V", "W", "X", "Y", "Z"}

\* str.lower() on one character
LowerChar(c) ==
    IF c \notin UpperCase THEN c
    ELSE CASE c = "A" -> "a" [] c = "B" -> "b" [] c = "C" -> "c" [] c = "D" -> "d"
           [] c = "E" -> "e" [] c = "F" -> "f" [] c = "G" -> "g" [] c = "H" -> "h"
           [] c = "I" -> "i" [] c = "J" -> "j" [] c = "K" -> "k" [] c = "L" -> "l"
           [] c = "M" -> "m" [] c = "N" -> "n" [] c = "O" -> "o" [] c = "P" -> "p"
           [] c = "Q" -> "q" [] c = "R" -> "r" [] c = "S" -> "s" [] c = "T" -> "t"
           [] c = "U" -> "u" [] c = "V" -> "v" [] c = "W" -> "w" [] c = "X" -> "x"
           [] c = "Y" -> "y" [] c = "Z" -> "z"

\* str.lower()
lower(s) == [i \in DOMAIN s |-> LowerChar(s[i])]

LowerCase == {"a", "b", "c", "d", "e", "f", "g", "h", "i", "j", "k", "l", "m",
              "n", "o", "p", "q", "r", "s", "t", "u", "v", "w", "x", "y", "z"}

\* str.upper() on one character
UpperChar(c) ==
    IF c \notin LowerCase THEN c
    ELSE CASE c = "a" -> "A" [] c = "b" -> "B" [] c = "c" -> "C" [] c = "d" -> "D"
           [] c = "e" -> "E" [] c = "f" -> "F" [] c = "g" -> "G" [] c = "h" -> "H"
           [] c = "i" -> "I" [] c = "j" -> "J" [] c = "k" -> "K" [] c = "l" -> "L"
           [] c = "m" -> "M" [] c = "n" -> "N" [] c = "o" -> "O" [] c = "p" -> "P"
           [] c = "q" -> "Q" [] c = "r" -> "R" [] c = "s" -> "S" [] c = "t" -> "T"
           [] c = "u" -> "U" [] c = "v" -> "V" [] c = "w" -> "W" [] c = "x" -> "X"
           [] c = "y" -> "Y" [] c = "z" -> "Z"

\* str.title(): a letter is upper case after a character that is no letter (and
\* at the start), lower case after a letter
title(s) ==
    [i \in DOMAIN s |->
        IF i = 1 \/ (i > 1 /\ s[i - 1] \notin LowerCase \cup UpperCase)
        THEN UpperChar(s[i]) ELSE LowerChar(s[i])]

\* str.split(sep) for a one-character separator: the pieces between separators,
\* empty pieces included; "".split('_') is [""].
RECURSIVE SplitFrom(_, _, _)
SplitFrom(s, sep, i) ==
    LET stops == {j \in i..Len(s) : s[j] = sep}
    IN  IF stops = {} THEN <<SubSeq(s, i, Len(s))>>
        ELSE LET j == CHOOSE k \in stops : \A m \in stops : k <= m
             IN  <<SubSeq(s, i, j - 1)>> \o SplitFrom(s, sep, j + 1)

split(s, sep) == SplitFrom(s, sep, 1)

\* set(list)
SetOf(seq) == {seq[i] : i \in DOMAIN seq}

SeqsUpTo(S, n) == UNION {[1..k -> S] : k \in 0..n}

(***************************************************************************)
(* Listings handed to the deduplicators                                    *)
(***************************************************************************)
SeniorPythonDeveloper == <<"S", "e", "n", "i", "o", "r", " ", "P", "y", "t", "h", "o", "n", " ",
                           "D", "e", "v", "e", "l", "o", "p", "e", "r">>
AcmeCorp == <<"A", "c", "m", "e", " ", "C", "o", "r", "p">>
Remote == <<"R", "e", "m", "o", "t", "e">>
RemoteUSA == <<"R", "e", "m", "o", "t", "e", " ", "U", "S", "A">>
KeyRemote == <<"s", "e", "n", "i", "o", "r", " ", "p", "y", "t", "h", "o", "n", " ",
               "d", "e", "v", "e", "l", "o", "p", "e", "r", "_",
               "a", "c", "m", "e", " ", "c", "o", "r", "p", "_",
               "r", "e", "m", "o", "t", "e">>
KeyRemoteUSA == <<"s", "e", "n", "i", "o", "r", " ", "p", "y", "t", "h", "o", "n", " ",
                  "d", "e", "v", "e", "l", "o", "p", "e", "r", "_",
                  "a", "c", "m", "e", " ", "c", "o", "r", "p", "_",
                  "r", "e", "m", "o", "t", "e", " ", "u", "s", "a">>

\* The (title, company, location) a page card or API item can carry.  The first two
\* are the listings of the threshold example; the last three have titles that
\* contain '_' and so give keys of 6, 7 and 6 tokens: the 7-token key shares 6
\* tokens with each of the others (6/7), the two 6-token keys share 5 (5/7).
RawFields == {
    [title |-> SeniorPythonDeveloper, company |-> AcmeCorp, location |-> Remote],
    [title |-> SeniorPythonDeveloper, company |-> AcmeCorp, location |-> RemoteUSA],
    [title |-> <<"a", "_", "b", "_", "c", "_", "d">>, company |-> <<"e">>, location |-> <<"f">>],
    [title |-> <<"a", "_", "b", "_", "c", "_", "d", "_", "g">>, company |-> <<"E">>, location |-> <<"f">>],
    [title |-> <<"b", "_", "c", "_", "d", "_", "g">>, company |-> <<"e">>, location |-> <<"F">>]
}

\* the keys of self.advanced_sources, in the order the dict is written
advanced_sources ==
    <<"indeed_advanced", "linkedin_jobs", "glassdoor_advanced", "naukri_advanced",
      "monster_advanced">>

\* source order of scrape_all_sources_advanced
AdvancedSourceOrder == <<"indeed_advanced", "glassdoor_advanced">>

SourceRank(order, name) == CHOOSE i \in DOMAIN order : order[i] = name

\* A listing object: its fields, the source its extractor stamps on it, and oid,
\* the identity of the Python object (its position in all_jobs).
MkJob(raw, source, oid) ==
    [title |-> raw.title, company |-> raw.company, location |-> raw.location,
     source |-> source, oid |-> oid]

(***************************************************************************)
(* Deduplicators                                                           *)
(***************************************************************************)
\* f"{title.lower()}_{company.lower()}_{location.lower()}"
identifier(job) ==
    lower(job.title) \o <<"_">> \o lower(job.company) \o <<"_">> \o lower(job.location)

\* Variant of similarity_score that also breaks the keys at blanks (word tokens).
similarity_score_words(str1, str2) ==
    LET under(s) == [i \in DOMAIN s |-> IF s[i] = " " THEN "_" ELSE s[i]]
        set1 == SetOf(split(under(str1), "_"))
        set2 == SetOf(split(under(str2), "_"))
        intersection == Cardinality(set1 \cap set2)
        union == Cardinality(set1 \cup set2)
    IN  IF union > 0 THEN [num |-> intersection, den |-> union]
        ELSE [num |-> 0, den |-> 1]

\* similarity_score: the quotient intersection / union, kept as a fraction
similarity_score(str1, str2) ==
    LET set1 == SetOf(split(str1, "_"))
        set2 == SetOf(split(str2, "_"))
        intersection == Cardinality(set1 \cap set2)
        union == Cardinality(set1 \cup set2)
    IN  IF union > 0 THEN [num |-> intersection, den |-> union]
        ELSE [num |-> 0, den |-> 1]

\* score > 0.85
Above085(score) == score.num * 100 > 85 * score.den

\* the loop of remove_duplicates_advanced from job i on
RECURSIVE AdvancedLoop(_, _, _, _)
AdvancedLoop(jobs, i, seen, unique) ==
    IF i > Len(jobs) THEN unique
    ELSE LET id == identifier(jobs[i])
             is_duplicate == \E seen_id \in seen : Above085(similarity_score(id, seen_id))
         IN  IF ~is_duplicate
             THEN AdvancedLoop(jobs, i + 1, seen \cup {id}, Append(unique, jobs[i]))
             ELSE AdvancedLoop(jobs, i + 1, seen, unique)

Reverse(seq) == [i \in 1..Len(seq) |-> seq[Len(seq) + 1 - i]]

\* Variant that compares a listing with the listing just before it only.
RECURSIVE AdjacentLoop(_, _, _)
AdjacentLoop(jobs, i, unique) ==
    IF i > Len(jobs) THEN unique
    ELSE IF i > 1 /\ Above085(similarity_score(identifier(jobs[i]), identifier(jobs[i - 1])))
         THEN AdjacentLoop(jobs, i + 1, unique)
         ELSE AdjacentLoop(jobs, i + 1, Append(unique, jobs[i]))

remove_duplicates_advanced_adjacent(jobs) == AdjacentLoop(jobs, 1, <<>>)

\* Variant that keeps the last listing of a group of duplicates, not the first.
remove_duplicates_advanced_keep_last(jobs) == Reverse(AdvancedLoop(Reverse(jobs), 1, {}, <<>>))

\* Variant that records the key of every listing, the discarded ones included.
RECURSIVE AllSeenLoop(_, _, _, _)
AllSeenLoop(jobs, i, seen, unique) ==
    IF i > Len(jobs) THEN unique
    ELSE LET id == identifier(jobs[i])
             is_duplicate == \E seen_id \in seen : Above085(similarity_score(id, seen_id))
         IN  AllSeenLoop(jobs, i + 1, seen \cup {id},
                         IF is_duplicate THEN unique ELSE Append(unique, jobs[i]))

remove_duplicates_advanced_all_seen(jobs) == AllSeenLoop(jobs, 1, {}, <<>>)

remove_duplicates_advanced(jobs) == AdvancedLoop(jobs, 1, {}, <<>>)

\* the loop of remove_duplicates from job i on
RECURSIVE ExactLoop(_, _, _, _)
ExactLoop(jobs, i, seen, unique) ==
    IF i > Len(jobs) THEN unique
    ELSE LET id == identifier(jobs[i])
         IN  IF id \notin seen
             THEN ExactLoop(jobs, i + 1, seen \cup {id}, Append(unique, jobs[i]))
             ELSE ExactLoop(jobs, i + 1, seen, unique)

remove_duplicates(jobs) == ExactLoop(jobs, 1, {}, <<>>)

(***************************************************************************)
(* Deduplicator component: scrape_all_sources_advanced gathers the         *)
(* per-source results in source order and deduplicates them; both          *)
(* deduplicators are applied to the gathered list and again to their own   *)
(* output.                                                                 *)
(***************************************************************************)
DedupIdle ==
    /\ d_pc = "indeed"
    /\ d_all_jobs = <<>>
    /\ d_unique_jobs = <<>>
    /\ d_exact_jobs = <<>>
    /\ d_unique_again = <<>>
    /\ d_exact_again = <<>>
    /\ d_source_results = [n \in {} |-> 0]

\* source_results[name] = len(listings)
SetItem(dict, key, value) ==
    [k \in DOMAIN dict \cup {key} |-> IF k = key THEN value ELSE dict[k]]

\* all_jobs.extend(<the source's listings>)
Extend(all, raws, source) ==
    all \o [k \in 1..Len(raws) |-> MkJob(raws[k], source, Len(all) + k)]

ScrapeIndeedResult ==
    /\ d_pc = "indeed"
    /\ \E raws \in SeqsUpTo(RawFields, MaxPerSource) :
           /\ d_all_jobs' = Extend(d_all_jobs, raws, "indeed_advanced")
           /\ d_source_results' = SetItem(d_source_results, "indeed_advanced", Len(raws))
    /\ d_pc' = "glassdoor"
    /\ UNCHANGED <<d_unique_jobs, d_exact_jobs, d_unique_again, d_exact_again>>
    /\ UNCHANGED <<scraper_vars, run_vars, gate_vars, rate_vars, ext_vars>>

ScrapeGlassdoorResult ==
    /\ d_pc = "glassdoor"
    /\ \E raws \in SeqsUpTo(RawFields, MaxPerSource) :
           /\ d_all_jobs' = Extend(d_all_jobs, raws, "glassdoor_advanced")
           /\ d_source_results' = SetItem(d_source_results, "glassdoor_advanced", Len(raws))
    /\ d_pc' = "dedup"
    /\ UNCHANGED <<d_unique_jobs, d_exact_jobs, d_unique_again, d_exact_again>>
    /\ UNCHANGED <<scraper_vars, run_vars, gate_vars, rate_vars, ext_vars>>

Deduplicate ==
    /\ d_pc = "dedup"
    /\ d_unique_jobs' = remove_duplicates_advanced(d_all_jobs)
    /\ d_exact_jobs' = remove_duplicates(d_all_jobs)
    /\ d_pc' = "again"
    /\ UNCHANGED <<d_all_jobs, d_unique_again, d_exact_again, d_source_results>>
    /\ UNCHANGED <<scraper_vars, run_vars, gate_vars, rate_vars, ext_vars>>

DeduplicateAgain ==
    /\ d_pc = "again"
    /\ d_unique_again' = remove_duplicates_advanced(d_unique_jobs)
    /\ d_exact_again' = remove_duplicates(d_exact_jobs)
    /\ d_pc' = "done"
    /\ UNCHANGED <<d_all_jobs, d_unique_jobs, d_exact_jobs, d_source_results>>
    /\ UNCHANGED <<scraper_vars, run_vars, gate_vars, rate_vars, ext_vars>>

DedupNext ==
    \/ ScrapeIndeedResult
    \/ ScrapeGlassdoorResult
    \/ Deduplicate
    \/ DeduplicateAgain

(***************************************************************************)
(* LegalJobScraper: configuration and source registry                      *)
(***************************************************************************)
\* ScrapingConfig(): the default, and one with the retry_attempts = 2 that main()
\* and JobScrapingAPI pass and with respect_robots switched off.
Configs == {
    [retry_attempts |-> 3, respect_robots |-> TRUE,  delay_min |-> 10],
    [retry_attempts |-> 2, respect_robots |-> FALSE, delay_min |-> 10]
}

\* self.job_sources, in insertion order; rate_limit in tenths of a second
job_sources == <<
    [name |-> "indeed", base_url |-> "https://www.indeed.com", search_endpoint |-> "/jobs",
     api_available |-> TRUE, requires_api_key |-> TRUE, rate_limit |-> 20,
     legal_status |-> "API_PREFERRED"],
    [name |-> "linkedin", base_url |-> "https://www.linkedin.com", search_endpoint |-> "/jobs/search",
     api_available |-> TRUE, requires_api_key |-> TRUE, rate_limit |-> 10,
     legal_status |-> "API_ONLY"],
    [name |-> "naukri", base_url |-> "https://www.naukri.com", search_endpoint |-> "/jobs",
     api_available |-> TRUE, requires_api_key |-> TRUE, rate_limit |-> 15,
     legal_status |-> "API_PREFERRED"],
    [name |-> "glassdoor", base_url |-> "https://www.glassdoor.com", search_endpoint |-> "/Job/jobs.htm",
     api_available |-> TRUE, requires_api_key |-> TRUE, rate_limit |-> 20,
     legal_status |-> "API_PREFERRED"],
    [name |-> "monster", base_url |-> "https://www.monster.com", search_endpoint |-> "/jobs/search",
     api_available |-> FALSE, rate_limit |-> 30,
     legal_status |-> "SCRAPING_ALLOWED"],
    [name |-> "dice", base_url |-> "https://www.dice.com", search_endpoint |-> "/jobs",
     api_available |-> FALSE, rate_limit |-> 25,
     legal_status |-> "SCRAPING_ALLOWED"],
    [name |-> "stackoverflow_jobs", base_url |-> "https://stackoverflow.com", search_endpoint |-> "/jobs",
     api_available |-> TRUE, requires_api_key |-> FALSE, rate_limit |-> 10,
     legal_status |-> "API_PREFERRED"],
    [name |-> "github_jobs", base_url |-> "https://jobs.github.com", search_endpoint |-> "/positions",
     api_available |-> TRUE, requires_api_key |-> FALSE, rate_limit |-> 10,
     legal_status |-> "API_AVAILABLE"],
    [name |-> "remoteok", base_url |-> "https://remoteok.io", search_endpoint |-> "/remote-jobs",
     api_available |-> TRUE, requires_api_key |-> FALSE, rate_limit |-> 20,
     legal_status |-> "API_AVAILABLE"],
    [name |-> "weworkremotely", base_url |-> "https://weworkremotely.com", search_endpoint |-> "/remote-jobs",
     api_available |-> FALSE, rate_limit |-> 30,
     legal_status |-> "SCRAPING_ALLOWED"]
>>

SourceNames == {job_sources[i].name : i \in DOMAIN job_sources}
BaseUrls == {job_sources[i].base_url : i \in DOMAIN job_sources}
LegalSourceOrder == [i \in DOMAIN job_sources |-> job_sources[i].name]

\* f"{source.upper()}_API_KEY"
api_key_env_var(source) ==
    CASE source = "indeed" -> "INDEED_API_KEY"
      [] source = "linkedin" -> "LINKEDIN_API_KEY"
      [] source = "naukri" -> "NAUKRI_API_KEY"
      [] source = "glassdoor" -> "GLASSDOOR_API_KEY"
      [] source = "monster" -> "MONSTER_API_KEY"
      [] source = "dice" -> "DICE_API_KEY"
      [] source = "stackoverflow_jobs" -> "STACKOVERFLOW_JOBS_API_KEY"
      [] source = "github_jobs" -> "GITHUB_JOBS_API_KEY"
      [] source = "remoteok" -> "REMOTEOK_API_KEY"
      [] source = "weworkremotely" -> "WEWORKREMOTELY_API_KEY"

\* The environments of a run: no key set; the keys of an API_PREFERRED and of an
\* API_AVAILABLE source; the keys of the API_ONLY source and of the API_PREFERRED
\* source that needs none.
Envs == {
    {},
    {"INDEED_API_KEY", "GITHUB_JOBS_API_KEY"},
    {"LINKEDIN_API_KEY", "STACKOVERFLOW_JOBS_API_KEY"}
}

\* Variant of getenv in which no variable is ever set.
getenv_unset(name) == FALSE

\* os.getenv(name), as a truth value
getenv(name) == name \in env

\* the sources scrape_via_api has a branch for
ApiImplemented == {"github_jobs", "remoteok", "stackoverflow_jobs"}
\* the sources scrape_via_web has a branch for
WebImplemented == {"monster", "dice", "weworkremotely"}

\* The (title, company, location) of the listings a page or an API answer of a run
\* can hold.
RunRawFields == {
    [title |-> <<"D">>, company |-> <<"x">>, location |-> <<"r">>],
    [title |-> <<"e">>, company |-> <<"x">>, location |-> <<"r">>]
}

(***************************************************************************)
(* LegalJobScraper.check_robots_txt                                        *)
(***************************************************************************)
\* A RobotFileParser after read(): the endpoints can_fetch('*', ...) refuses.
Parsers(endpoints) == SUBSET endpoints

can_fetch(rp, endpoint) == endpoint \notin rp

\* Variant of check_robots_txt that never looks into the cache.
check_robots_txt_uncached(base_url, endpoint, endpoints, ret) ==
    IF ~config.respect_robots
    THEN ret = TRUE /\ UNCHANGED <<robots_cache, robots_reads>>
    ELSE /\ robots_reads' = [robots_reads EXCEPT ![base_url] = @ + 1]
         /\ \/ ret = TRUE /\ UNCHANGED robots_cache
            \/ \E rp \in Parsers(endpoints) :
                   /\ robots_cache' = [u \in DOMAIN robots_cache \cup {base_url} |->
                                          IF u = base_url THEN rp ELSE robots_cache[u]]
                   /\ ret = can_fetch(rp, endpoint)

\* check_robots_txt(base_url, endpoint) returning ret.  rp.read() either raises
\* (the except branch: allowed, nothing stored) or returns, and only then is rp
\* stored in the cache.
check_robots_txt(base_url, endpoint, endpoints, ret) ==
    IF ~config.respect_robots
    THEN ret = TRUE /\ UNCHANGED <<robots_cache, robots_reads>>
    ELSE IF base_url \in DOMAIN robots_cache
    THEN /\ ret = can_fetch(robots_cache[base_url], endpoint)
         /\ UNCHANGED <<robots_cache, robots_reads>>
    ELSE /\ robots_reads' = [robots_reads EXCEPT ![base_url] = @ + 1]
         /\ \/ ret = TRUE /\ UNCHANGED robots_cache
            \/ \E rp \in Parsers(endpoints) :
                   /\ robots_cache' = [u \in DOMAIN robots_cache \cup {base_url} |->
                                          IF u = base_url THEN rp ELSE robots_cache[u]]
                   /\ ret = can_fetch(rp, endpoint)

ScraperNew ==
    /\ config \in Configs
    /\ env = {}
    /\ robots_cache = <<>>
    /\ robots_reads = [u \in BaseUrls |-> 0]

(***************************************************************************)
(* LegalJobScraper.scrape_jobs_comprehensive                               *)
(***************************************************************************)
\* scrape_jobs_for_api has not been called
ApiIdle == api_result = [success |-> "none"]

Tasks == 1..MaxTasks

\* no fetch has been started on the session
SessionIdle ==
    /\ s_max_concurrent = 5
    /\ s_task = [t \in Tasks |-> "idle"]

\* AdvancedScrapingConfig()
DefaultAdvancedConfig ==
    [use_proxies |-> TRUE, use_cloudflare_bypass |-> TRUE, random_delays |-> TRUE,
     user_agent_rotation |-> TRUE]

\* load_proxy_list(): the proxies of SCRAPING_PROXIES, then the two built-in ones
ProxyPools ==
    { <<"http://proxy1.example.com:8080", "http://proxy2.example.com:8080">>,
      <<"http://env1:8080", "http://proxy1.example.com:8080",
        "http://proxy2.example.com:8080">> }

Requests == 1..MaxRequests

NotStarted == [st |-> "idle", proxy |-> "none", index |-> -1]

\* a fresh AdvancedJobScraper: no request has been made
ProxyIdle ==
    /\ a_config = DefaultAdvancedConfig
    /\ a_rotation_interval = 5
    /\ proxies = <<"http://proxy1.example.com:8080", "http://proxy2.example.com:8080">>
    /\ current_proxy_index = 0
    /\ request_count = 0
    /\ a_last = [source |-> "", ret |-> "none"]
    /\ a_request = [w \in Requests |-> NotStarted]

\* the scrapers whose handling of a page is followed
Adapters == {"monster", "indeed_advanced", "github_jobs"}

\* no page has been fetched
NormIdle ==
    /\ n_page = <<>>
    /\ n_done = {}
    /\ n_jobs = [a \in Adapters |-> <<>>]

\* no description has been looked at
ExtractIdle ==
    /\ e_words = <<>>
    /\ e_description = <<>>
    /\ e_done = {}
    /\ e_job_type = ""
    /\ e_skills = <<>>
    /\ e_requirements = <<>>

\* scrape_indeed_advanced has not requested a page
PageIdle ==
    /\ i_pc = "request"
    /\ i_pages = <<>>
    /\ i_slept = FALSE

\* no listing and no field has been extracted
AdapterIdle == NormIdle /\ ExtractIdle /\ PageIdle

\* nothing outside LegalJobScraper and the deduplicator component has run
ExtIdle == ApiIdle /\ SessionIdle /\ ProxyIdle /\ AdapterIdle

RunIdle ==
    /\ pc = "select"
    /\ idx = 1
    /\ src_jobs = <<>>
    /\ all_jobs = <<>>
    /\ unique_jobs = <<>>
    /\ path = [s \in SourceNames |-> "none"]
    /\ gate = [s \in SourceNames |-> "none"]
    /\ fetches = [s \in SourceNames |-> 0]
    /\ outcome = [s \in SourceNames |-> "none"]

(***************************************************************************)
(* check_robots_txt called again and again on one scraper                  *)
(***************************************************************************)
\* the base URLs and endpoints of the calls: those of monster and dice
GateUrls == {"https://www.monster.com", "https://www.dice.com"}
GatePaths == {"/jobs/search", "/jobs"}

NoCall == [base_url |-> "", endpoint |-> "", ret |-> TRUE, read |-> "none"]

GateIdle ==
    /\ g_calls = 0
    /\ g_last = NoCall
    /\ g_failed = {}

\* no run of the rate step has started
RateIdle ==
    /\ r_pc = "fetch"
    /\ r_idx = 1
    /\ r_runs = 0
    /\ r_watch = ""
    /\ r_gap = -1
    /\ r_spacing = -1
    /\ r_source = ""
    /\ r_delay = 0

\* one call check_robots_txt(base_url, endpoint)
CheckRobotsTxt ==
    /\ g_calls < MaxCalls
    /\ \E base_url \in GateUrls, endpoint \in GatePaths, ret \in BOOLEAN :
          /\ check_robots_txt(base_url, endpoint, GatePaths, ret)
          /\ LET read == IF robots_reads'[base_url] = robots_reads[base_url] THEN "none"
                         ELSE IF base_url \in DOMAIN robots_cache' THEN "returned"
                         ELSE "raised"
             IN  /\ g_last' = [base_url |-> base_url, endpoint |-> endpoint,
                               ret |-> ret, read |-> read]
                 /\ g_failed' = IF read = "raised" THEN g_failed \cup {base_url} ELSE g_failed
    /\ g_calls' = g_calls + 1
    /\ UNCHANGED <<config, env, run_vars, dedup_vars, rate_vars, ext_vars>>

GateInit ==
    /\ config \in Configs
    /\ env = {}
    /\ robots_cache = <<>>
    /\ robots_reads = [u \in BaseUrls |-> 0]
    /\ RunIdle
    /\ DedupIdle
    /\ ExtIdle
    /\ GateIdle
    /\ RateIdle

GateNext == CheckRobotsTxt

SpecGate == GateInit /\ [][GateNext]_vars

(***************************************************************************)
(* respectful_delay, and the times of the fetches of successive runs       *)
(***************************************************************************)
\* ScrapingConfig with delay_min below, at and above the rate limits of the sources
RateConfigs == {
    [retry_attempts |-> 3, respect_robots |-> TRUE, delay_min |-> 5],
    [retry_attempts |-> 3, respect_robots |-> TRUE, delay_min |-> 10],
    [retry_attempts |-> 3, respect_robots |-> TRUE, delay_min |-> 50]
}

\* random.uniform(min_delay, min_delay + 1.0) - min_delay, on a grid of 0.5 s
Jitter == {0, 5, 10}

\* self.job_sources.get(source, {}).get('rate_limit', self.config.delay_min)
min_delay_of(source) ==
    IF \E i \in DOMAIN job_sources : job_sources[i].name = source
    THEN job_sources[CHOOSE i \in DOMAIN job_sources : job_sources[i].name = source].rate_limit
    ELSE config.delay_min

\* Variant of respectful_delay that starts from config.delay_min for every source.
respectful_delay_global(source) == {config.delay_min + j : j \in Jitter}

\* the delays respectful_delay(source) can sleep
respectful_delay(source) == {min_delay_of(source) + j : j \in Jitter}

rcur == job_sources[r_idx]

RateNextSource ==
    IF r_idx = Len(job_sources)
    THEN r_idx' = 1 /\ r_runs' = r_runs + 1 /\ r_pc' = "returned"
    ELSE r_idx' = r_idx + 1 /\ r_runs' = r_runs /\ r_pc' = "fetch"

\* API_ONLY: continue, with neither fetch nor delay
RateSkip ==
    /\ r_pc = "fetch"
    /\ rcur.legal_status = "API_ONLY"
    /\ RateNextSource
    /\ UNCHANGED <<r_watch, r_gap, r_spacing, r_source, r_delay>>
    /\ UNCHANGED <<scraper_vars, run_vars, dedup_vars, gate_vars, ext_vars>>

\* the dispatch of the loop leads source src to a scraper that issues a request
IssuesRequest(src) ==
    \/ src.legal_status = "API_AVAILABLE" /\ src.name \in ApiImplemented
    \/ /\ src.legal_status = "API_PREFERRED"
       /\ IF getenv(api_key_env_var(src.name))
          THEN src.name \in ApiImplemented
          ELSE src.name \in WebImplemented
    \/ src.legal_status = "SCRAPING_ALLOWED" /\ src.name \in WebImplemented

\* the source is processed and its scraper issues its fetch
RateFetch ==
    /\ r_pc = "fetch"
    /\ IssuesRequest(rcur)
    /\ r_pc' = "delay"
    /\ IF rcur.name = r_watch
       THEN r_spacing' = r_gap /\ r_gap' = 0
       ELSE UNCHANGED <<r_spacing, r_gap>>
    /\ UNCHANGED <<r_idx, r_runs, r_watch, r_source, r_delay>>
    /\ UNCHANGED <<scraper_vars, run_vars, dedup_vars, gate_vars, ext_vars>>

\* the source is processed without a fetch (no branch for it, or robots.txt
\* disallows)
RateNoFetch ==
    /\ r_pc = "fetch"
    /\ rcur.legal_status # "API_ONLY"
    /\ r_pc' = "delay"
    /\ UNCHANGED <<r_idx, r_runs, r_watch, r_gap, r_spacing, r_source, r_delay>>
    /\ UNCHANGED <<scraper_vars, run_vars, dedup_vars, gate_vars, ext_vars>>

\* await self.respectful_delay(source_name)
RateDelay ==
    /\ r_pc = "delay"
    /\ \E delay \in respectful_delay(rcur.name) :
          /\ r_delay' = delay
          /\ r_gap' = IF r_gap = -1 THEN -1 ELSE r_gap + delay
    /\ r_source' = rcur.name
    /\ RateNextSource
    /\ UNCHANGED <<r_watch, r_spacing>>
    /\ UNCHANGED <<scraper_vars, run_vars, dedup_vars, gate_vars, ext_vars>>

\* scrape_jobs_comprehensive is called again on the same scraper
RateRunAgain ==
    /\ r_pc = "returned"
    /\ r_runs < MaxRuns
    /\ r_pc' = "fetch"
    /\ UNCHANGED <<r_idx, r_runs, r_watch, r_gap, r_spacing, r_source, r_delay>>
    /\ UNCHANGED <<scraper_vars, run_vars, dedup_vars, gate_vars, ext_vars>>

RateInit ==
    /\ config \in RateConfigs
    /\ env = {}
    /\ robots_cache = <<>>
    /\ robots_reads = [u \in BaseUrls |-> 0]
    /\ RunIdle
    /\ DedupIdle
    /\ ExtIdle
    /\ GateIdle
    /\ r_pc = "fetch"
    /\ r_idx = 1
    /\ r_runs = 0
    /\ r_watch \in SourceNames
    /\ r_gap = -1
    /\ r_spacing = -1
    /\ r_source = ""
    /\ r_delay = 0

RateNext ==
    \/ RateSkip
    \/ RateFetch
    \/ RateNoFetch
    \/ RateDelay
    \/ RateRunAgain

SpecRate == RateInit /\ [][RateNext]_vars

RunInit ==
    /\ config \in Configs
    /\ env \in Envs
    /\ robots_cache = <<>>
    /\ robots_reads = [u \in BaseUrls |-> 0]
    /\ RunIdle
    /\ DedupIdle
    /\ ExtIdle
    /\ GateIdle
    /\ RateIdle

cur == job_sources[idx]

\* network events of the run so far
Events ==
    Cardinality({s \in SourceNames : gate[s] \in {"denied", "unreadable"}})
    + Cardinality({s \in SourceNames :
                       outcome[s] \in {"timeout", "http_503", "http_404", "parse_error"}})
    + Len(all_jobs) + Len(src_jobs)

\* Variant of NextSource that turns to the same source again.
NextSource_again ==
    /\ idx' = idx
    /\ pc' = "select"

\* the loop goes to the next source, or leaves the loop after the last one
NextSource ==
    /\ idx' = idx + 1
    /\ pc' = IF idx = Len(job_sources) THEN "merge" ELSE "select"

\* legal_status == 'API_AVAILABLE': scrape_via_api
SelectApiAvailable ==
    /\ pc = "select"
    /\ cur.legal_status = "API_AVAILABLE"
    /\ path' = [path EXCEPT ![cur.name] = "api"]
    /\ pc' = "api"
    /\ UNCHANGED <<idx, src_jobs, all_jobs, unique_jobs, gate, fetches, outcome>>
    /\ UNCHANGED <<scraper_vars, dedup_vars, gate_vars, rate_vars, ext_vars>>

\* legal_status == 'API_PREFERRED': scrape_via_api_with_fallback
SelectApiPreferred ==
    /\ pc = "select"
    /\ cur.legal_status = "API_PREFERRED"
    /\ IF getenv(api_key_env_var(cur.name))
       THEN path' = [path EXCEPT ![cur.name] = "api"] /\ pc' = "api"
       ELSE path' = [path EXCEPT ![cur.name] = "web"] /\ pc' = "gate"
    /\ UNCHANGED <<idx, src_jobs, all_jobs, unique_jobs, gate, fetches, outcome>>
    /\ UNCHANGED <<scraper_vars, dedup_vars, gate_vars, rate_vars, ext_vars>>

\* legal_status == 'SCRAPING_ALLOWED': scrape_via_web
SelectScrapingAllowed ==
    /\ pc = "select"
    /\ cur.legal_status = "SCRAPING_ALLOWED"
    /\ path' = [path EXCEPT ![cur.name] = "web"]
    /\ pc' = "gate"
    /\ UNCHANGED <<idx, src_jobs, all_jobs, unique_jobs, gate, fetches, outcome>>
    /\ UNCHANGED <<scraper_vars, dedup_vars, gate_vars, rate_vars, ext_vars>>

\* Variant of SkipApiOnly that hands an API_ONLY source to a fetch on the API path.
SkipApiOnly_fetching ==
    /\ pc = "select"
    /\ cur.legal_status = "API_ONLY"
    /\ path' = [path EXCEPT ![cur.name] = "api"]
    /\ pc' = "fetch"
    /\ UNCHANGED <<idx, src_jobs, all_jobs, unique_jobs, gate, fetches, outcome>>
    /\ UNCHANGED <<scraper_vars, dedup_vars, gate_vars, rate_vars, ext_vars>>

\* legal_status == 'API_ONLY': logged and skipped with continue
SkipApiOnly ==
    /\ pc = "select"
    /\ cur.legal_status = "API_ONLY"
    /\ path' = [path EXCEPT ![cur.name] = "skip"]
    /\ NextSource
    /\ UNCHANGED <<src_jobs, all_jobs, unique_jobs, gate, fetches, outcome>>
    /\ UNCHANGED <<scraper_vars, dedup_vars, gate_vars, rate_vars, ext_vars>>

\* scrape_via_api: the branch of the source, or [] when there is none
ScrapeViaApi ==
    /\ pc = "api"
    /\ IF cur.name \in ApiImplemented
       THEN pc' = "fetch" /\ UNCHANGED <<src_jobs, outcome>>
       ELSE /\ src_jobs' = <<>>
            /\ outcome' = [outcome EXCEPT ![cur.name] = "not_implemented"]
            /\ pc' = "collect"
    /\ UNCHANGED <<idx, all_jobs, unique_jobs, path, gate, fetches>>
    /\ UNCHANGED <<scraper_vars, dedup_vars, gate_vars, rate_vars, ext_vars>>

\* Variant of ScrapeViaWebGate that goes on to the page whatever the check returned.
ScrapeViaWebGate_ignoring_result ==
    /\ pc = "gate"
    /\ \E ret \in BOOLEAN :
          /\ check_robots_txt(cur.base_url, cur.search_endpoint, {cur.search_endpoint}, ret)
          /\ gate' = [gate EXCEPT ![cur.name] =
                         IF ~ret THEN "denied"
                         ELSE IF ~config.respect_robots THEN "off"
                         ELSE IF cur.base_url \in DOMAIN robots_cache' THEN "allowed"
                         ELSE "unreadable"]
          /\ pc' = "web" /\ UNCHANGED src_jobs
    /\ UNCHANGED <<idx, all_jobs, unique_jobs, path, fetches, outcome>>
    /\ UNCHANGED <<config, env, dedup_vars, gate_vars, rate_vars, ext_vars>>
    /\ Events' <= MaxEvents

\* scrape_via_web up to its return [] : the check of robots.txt
ScrapeViaWebGate ==
    /\ pc = "gate"
    /\ \E ret \in BOOLEAN :
          /\ check_robots_txt(cur.base_url, cur.search_endpoint, {cur.search_endpoint}, ret)
          /\ gate' = [gate EXCEPT ![cur.name] =
                         IF ~ret THEN "denied"
                         ELSE IF ~config.respect_robots THEN "off"
                         ELSE IF cur.base_url \in DOMAIN robots_cache' THEN "allowed"
                         ELSE "unreadable"]
          /\ IF ret THEN pc' = "web" /\ UNCHANGED src_jobs
             ELSE pc' = "collect" /\ src_jobs' = <<>>
    /\ UNCHANGED <<idx, all_jobs, unique_jobs, path, fetches, outcome>>
    /\ UNCHANGED <<config, env, dedup_vars, gate_vars, rate_vars, ext_vars>>
    /\ Events' <= MaxEvents

\* scrape_via_web after the check: the branch of the source, or [] when there is none
ScrapeViaWeb ==
    /\ pc = "web"
    /\ IF cur.name \in WebImplemented
       THEN pc' = "fetch" /\ UNCHANGED <<src_jobs, outcome>>
       ELSE /\ src_jobs' = <<>>
            /\ outcome' = [outcome EXCEPT ![cur.name] = "not_implemented"]
            /\ pc' = "collect"
    /\ UNCHANGED <<idx, all_jobs, unique_jobs, path, gate, fetches>>
    /\ UNCHANGED <<scraper_vars, dedup_vars, gate_vars, rate_vars, ext_vars>>

\* Variant of FetchRaises in which the exception ends the loop over the sources.
FetchRaises_leaving_loop ==
    /\ pc = "fetch"
    /\ outcome' = [outcome EXCEPT ![cur.name] = "timeout"]
    /\ fetches' = [fetches EXCEPT ![cur.name] = @ + 1]
    /\ src_jobs' = <<>>
    /\ pc' = "merge"
    /\ UNCHANGED <<idx, all_jobs, unique_jobs, path, gate>>
    /\ UNCHANGED <<scraper_vars, dedup_vars, gate_vars, rate_vars, ext_vars>>
    /\ Events' <= MaxEvents

\* The one session.get of the source's scraper (scrape_monster_web,
\* scrape_github_jobs_api, ...): it raises, or answers with a status other than 200,
\* or answers 200 with listings; in every case the scraper returns its jobs list.
FetchRaises ==
    /\ pc = "fetch"
    /\ \E err \in {"timeout"} :
           outcome' = [outcome EXCEPT ![cur.name] = err]
    /\ fetches' = [fetches EXCEPT ![cur.name] = @ + 1]
    /\ src_jobs' = <<>>
    /\ pc' = "collect"
    /\ UNCHANGED <<idx, all_jobs, unique_jobs, path, gate>>
    /\ UNCHANGED <<scraper_vars, dedup_vars, gate_vars, rate_vars, ext_vars>>
    /\ Events' <= MaxEvents

FetchNot200 ==
    /\ pc = "fetch"
    /\ \E status \in {"http_503", "http_404"} :
           outcome' = [outcome EXCEPT ![cur.name] = status]
    /\ fetches' = [fetches EXCEPT ![cur.name] = @ + 1]
    /\ src_jobs' = <<>>
    /\ pc' = "collect"
    /\ UNCHANGED <<idx, all_jobs, unique_jobs, path, gate>>
    /\ UNCHANGED <<scraper_vars, dedup_vars, gate_vars, rate_vars, ext_vars>>
    /\ Events' <= MaxEvents

Fetch200 ==
    /\ pc = "fetch"
    /\ \E raws \in SeqsUpTo(RunRawFields, MaxEvents - Events) :
           src_jobs' = [k \in 1..Len(raws) |-> MkJob(raws[k], cur.name, Len(all_jobs) + k)]
    /\ fetches' = [fetches EXCEPT ![cur.name] = @ + 1]
    /\ outcome' = [outcome EXCEPT ![cur.name] = "ok"]
    /\ pc' = "collect"
    /\ UNCHANGED <<idx, all_jobs, unique_jobs, path, gate>>
    /\ UNCHANGED <<scraper_vars, dedup_vars, gate_vars, rate_vars, ext_vars>>

\* The answer is 200 and reading it raises part-way (response.json(), a field of
\* an item, a card): the except clause of the scraper logs it and the scraper
\* returns the listings it had appended before.
FetchParseRaises ==
    /\ pc = "fetch"
    /\ \E raws \in SeqsUpTo(RunRawFields, MaxEvents - Events) :
           src_jobs' = [k \in 1..Len(raws) |-> MkJob(raws[k], cur.name, Len(all_jobs) + k)]
    /\ fetches' = [fetches EXCEPT ![cur.name] = @ + 1]
    /\ outcome' = [outcome EXCEPT ![cur.name] = "parse_error"]
    /\ pc' = "collect"
    /\ UNCHANGED <<idx, all_jobs, unique_jobs, path, gate>>
    /\ UNCHANGED <<scraper_vars, dedup_vars, gate_vars, rate_vars, ext_vars>>
    /\ Events' <= MaxEvents

\* all_jobs.extend(jobs)
Collect ==
    /\ pc = "collect"
    /\ all_jobs' = all_jobs \o src_jobs
    /\ src_jobs' = <<>>
    /\ pc' = "delay"
    /\ UNCHANGED <<idx, unique_jobs, path, gate, fetches, outcome>>
    /\ UNCHANGED <<scraper_vars, dedup_vars, gate_vars, rate_vars, ext_vars>>

\* await self.respectful_delay(source_name), then the next source
DelayAfterSource ==
    /\ pc = "delay"
    /\ NextSource
    /\ UNCHANGED <<src_jobs, all_jobs, unique_jobs, path, gate, fetches, outcome>>
    /\ UNCHANGED <<scraper_vars, dedup_vars, gate_vars, rate_vars, ext_vars>>

\* unique_jobs = self.remove_duplicates(all_jobs); return unique_jobs
Merge ==
    /\ pc = "merge"
    /\ unique_jobs' = remove_duplicates(all_jobs)
    /\ pc' = "done"
    /\ UNCHANGED <<idx, src_jobs, all_jobs, path, gate, fetches, outcome>>
    /\ UNCHANGED <<scraper_vars, dedup_vars, gate_vars, rate_vars, ext_vars>>

\* The dict the return statement of scrape_jobs_for_api describes for the listings
\* jobs: one api_job per listing, grouped by their 'source'.
api_response(jobs) ==
    LET sources == {jobs[k].source : k \in DOMAIN jobs}
    IN  [success |-> TRUE,
         totalJobs |-> Len(jobs),
         sources |-> sources,
         jobsBySource |-> [s \in sources |->
                              Cardinality({k \in DOMAIN jobs : jobs[k].source = s})],
         legalCompliance |-> TRUE,
         robotsTxtRespected |-> TRUE,
         rateLimited |-> TRUE]

\* job_scraping_api.py is not Python: 'scrapedAt': new Date().toISOString() stands
\* in the body of scrape_jobs_for_api, so compiling the module raises SyntaxError.
ModuleCompiles == FALSE

\* The listings of the run go to the caller through job_scraping_api.py: the
\* caller gets the SyntaxError of the module; body is the dict the function's
\* return statement describes for these listings.
ScrapeJobsForApi ==
    /\ pc = "done"
    /\ api_result' = [success |-> IF ModuleCompiles THEN "returned" ELSE "SyntaxError",
                      body |-> api_response(unique_jobs)]
    /\ pc' = "returned"
    /\ UNCHANGED <<idx, src_jobs, all_jobs, unique_jobs, path, gate, fetches, outcome>>
    /\ UNCHANGED <<scraper_vars, dedup_vars, gate_vars, rate_vars, session_vars, proxy_vars,
                   adapter_vars>>

Next ==
    \/ SelectApiAvailable
    \/ SelectApiPreferred
    \/ SelectScrapingAllowed
    \/ SkipApiOnly
    \/ ScrapeViaApi
    \/ ScrapeViaWebGate
    \/ ScrapeViaWeb
    \/ FetchRaises
    \/ FetchNot200
    \/ Fetch200
    \/ FetchParseRaises
    \/ Collect
    \/ DelayAfterSource
    \/ Merge
    \/ ScrapeJobsForApi

Spec == RunInit /\ [][Next]_vars

\* remove_duplicates raises: job.title.lower() (or company, location) on a listing
\* whose field is None, which an API item with a JSON null gives; the call stands
\* outside every try of scrape_jobs_comprehensive, so the run raises.
MergeRaises ==
    /\ pc = "merge"
    /\ \E k \in DOMAIN all_jobs : all_jobs[k].source \in ApiImplemented
    /\ pc' = "raised"
    /\ UNCHANGED <<idx, src_jobs, all_jobs, unique_jobs, path, gate, fetches, outcome>>
    /\ UNCHANGED <<scraper_vars, dedup_vars, gate_vars, rate_vars, ext_vars>>

\* the dict of the except branch of scrape_jobs_for_api
api_error_response == [success |-> FALSE, totalJobs |-> 0, jobs |-> <<>>]

\* The run raised inside scrape_jobs_for_api: its except branch would return
\* api_error_response; the caller gets the SyntaxError of the module.
ScrapeJobsForApiExcept ==
    /\ pc = "raised"
    /\ api_result' = [success |-> IF ModuleCompiles THEN "failed" ELSE "SyntaxError",
                      body |-> api_error_response]
    /\ pc' = "failed"
    /\ UNCHANGED <<idx, src_jobs, all_jobs, unique_jobs, path, gate, fetches, outcome>>
    /\ UNCHANGED <<scraper_vars, dedup_vars, gate_vars, rate_vars, session_vars, proxy_vars,
                   adapter_vars>>

NextApi ==
    \/ Next
    \/ MergeRaises
    \/ ScrapeJobsForApiExcept

\* the run called through scrape_jobs_for_api, exceptions that leave the run included
SpecApi == RunInit /\ [][NextApi]_vars

\* the run with its steps taken as long as one is possible: the event loop goes on
\* with the coroutine, and every await of the run ends (a request by its timeout)
FairSpec == Spec /\ WF_vars(Next)

DedupInit ==
    /\ DedupIdle
    /\ ExtIdle
    /\ ScraperNew
    /\ RunIdle
    /\ GateIdle
    /\ RateIdle

SpecDedup == DedupInit /\ [][DedupNext]_vars

(***************************************************************************)
(* self.session: aiohttp.ClientSession(connector=TCPConnector(limit=        *)
(* config.max_concurrent)).  Every fetch of LegalJobScraper is a            *)
(* self.session.get; the fetches of several sources are started             *)
(* concurrently on the one session.  A session.get takes a connection of    *)
(* the connector when fewer than limit are in use and waits otherwise       *)
(* (limit 0 means no limit); the end of the response gives it back.         *)
(***************************************************************************)
\* max_concurrent of ScrapingConfig() and of the configurations built in the code
MaxConcurrentValues == {3, 5}

\* the sources whose scraper issues a session.get, in the order of job_sources
FetchingSources ==
    SelectSeq([i \in DOMAIN job_sources |-> job_sources[i].name],
              LAMBDA n : n \in ApiImplemented \cup WebImplemented)

\* the source fetch t is for
TaskSource(t) == FetchingSources[((t - 1) % Len(FetchingSources)) + 1]

InFlightOf(source) ==
    Cardinality({t \in Tasks : s_task[t] = "inflight" /\ TaskSource(t) = source})

InFlight == Cardinality({t \in Tasks : s_task[t] = "inflight"})

\* Variant of the connector built without a limit.
CanAcquire_unlimited(inflight, limit) == TRUE

\* TCPConnector(limit=...): a connection is available
CanAcquire(inflight, limit) == limit = 0 \/ inflight < limit

\* self.session.get(...) is called: the fetch gets a connection or waits for one
SessionGet(t) ==
    /\ s_task[t] = "idle"
    /\ s_task' = [s_task EXCEPT ![t] =
                     IF CanAcquire(InFlight, s_max_concurrent) THEN "inflight" ELSE "waiting"]
    /\ UNCHANGED s_max_concurrent
    /\ UNCHANGED <<dedup_vars, scraper_vars, run_vars, gate_vars, rate_vars, api_vars,
                   proxy_vars, adapter_vars>>

\* a waiting fetch gets the connection that was given back
SessionAcquire(t) ==
    /\ s_task[t] = "waiting"
    /\ CanAcquire(InFlight, s_max_concurrent)
    /\ s_task' = [s_task EXCEPT ![t] = "inflight"]
    /\ UNCHANGED s_max_concurrent
    /\ UNCHANGED <<dedup_vars, scraper_vars, run_vars, gate_vars, rate_vars, api_vars,
                   proxy_vars, adapter_vars>>

\* the response is read, or the request fails or runs into the timeout: the
\* connection is given back
SessionRelease(t) ==
    /\ s_task[t] = "inflight"
    /\ s_task' = [s_task EXCEPT ![t] = "done"]
    /\ UNCHANGED s_max_concurrent
    /\ UNCHANGED <<dedup_vars, scraper_vars, run_vars, gate_vars, rate_vars, api_vars,
                   proxy_vars, adapter_vars>>

SessionInit ==
    /\ config \in Configs
    /\ env = {}
    /\ robots_cache = <<>>
    /\ robots_reads = [u \in BaseUrls |-> 0]
    /\ RunIdle
    /\ DedupIdle
    /\ ApiIdle
    /\ ProxyIdle
    /\ AdapterIdle
    /\ GateIdle
    /\ RateIdle
    /\ s_max_concurrent \in MaxConcurrentValues
    /\ s_task = [t \in Tasks |-> "idle"]

SessionNext ==
    \/ \E t \in Tasks : SessionGet(t)
    \/ \E t \in Tasks : SessionAcquire(t)
    \/ \E t \in Tasks : SessionRelease(t)

\* The event loop runs every coroutine that can run, and every request ends (by its
\* response, an error, or ClientTimeout(total=config.timeout)).
SpecSession == SessionInit /\ [][SessionNext]_vars /\ WF_vars(SessionNext)

(***************************************************************************)
(* AdvancedJobScraper.get_next_proxy, called by make_request_with_protection. *)
(* The calls of make_request_with_protection run as coroutines of one event *)
(* loop: get_next_proxy contains no await, so it runs as one step; the     *)
(* coroutine is suspended at asyncio.sleep (random_delays) or at the        *)
(* session.get of the aiohttp branch, and sends its request with the proxy  *)
(* it took before.                                                          *)
(***************************************************************************)
AdvancedConfigs ==
    { DefaultAdvancedConfig,
      [DefaultAdvancedConfig EXCEPT !.use_proxies = FALSE],
      [DefaultAdvancedConfig EXCEPT !.user_agent_rotation = FALSE],
      [DefaultAdvancedConfig EXCEPT !.random_delays = FALSE] }

\* values of ProxyConfig.rotation_interval: the default and another one
RotationIntervals == {5, 2}

\* the sources whose scraper calls make_request_with_protection
AdvancedRequestSources == {"indeed_advanced", "glassdoor_advanced"}

\* Variant of the rotation test that reads ProxyConfig.rotation_interval.
RotationDue_by_interval(count) == count % a_rotation_interval = 0

\* if self.request_count % 5 == 0
RotationDue(count) == count % 5 = 0

get_next_proxy(cfg, pool, index, count) ==
    IF ~cfg.use_proxies \/ Len(pool) = 0
    THEN [ret |-> "None", index |-> index, count |-> count]
    ELSE LET i == IF RotationDue(count) THEN (index + 1) % Len(pool) ELSE index
         IN [ret |-> pool[i + 1], index |-> i, count |-> count + 1]

\* the coroutine is suspended between get_next_proxy and its request
Suspends(cfg) == cfg.random_delays \/ ~cfg.use_cloudflare_bypass

\* make_request_with_protection up to its first suspension: get_next_proxy, and,
\* when nothing suspends it, the (synchronous) request as well
MakeRequest(w) ==
    /\ a_request[w].st = "idle"
    /\ IF w = 1 THEN TRUE ELSE a_request[w - 1].st # "idle"
    /\ \E source \in AdvancedRequestSources :
        LET g == get_next_proxy(a_config, proxies, current_proxy_index, request_count) IN
        /\ current_proxy_index' = g.index
        /\ request_count' = g.count
        /\ a_last' = [source |-> source, ret |-> g.ret]
        /\ a_request' = [a_request EXCEPT ![w] =
                             [st |-> IF Suspends(a_config) THEN "suspended" ELSE "done",
                              proxy |-> g.ret, index |-> g.index]]
    /\ UNCHANGED <<a_config, a_rotation_interval, proxies>>
    /\ UNCHANGED <<dedup_vars, scraper_vars, run_vars, gate_vars, rate_vars, api_vars,
                   session_vars, adapter_vars>>

\* the coroutine resumes and its request goes out through the proxy it holds
SendRequest(w) ==
    /\ a_request[w].st = "suspended"
    /\ a_request' = [a_request EXCEPT ![w].st = "done"]
    /\ UNCHANGED <<a_config, a_rotation_interval, proxies, current_proxy_index,
                   request_count, a_last>>
    /\ UNCHANGED <<dedup_vars, scraper_vars, run_vars, gate_vars, rate_vars, api_vars,
                   session_vars, adapter_vars>>

ProxyInit ==
    /\ config \in Configs
    /\ env = {}
    /\ robots_cache = <<>>
    /\ robots_reads = [u \in BaseUrls |-> 0]
    /\ RunIdle
    /\ DedupIdle
    /\ ApiIdle
    /\ SessionIdle
    /\ AdapterIdle
    /\ GateIdle
    /\ RateIdle
    /\ a_config \in AdvancedConfigs
    /\ a_rotation_interval \in RotationIntervals
    /\ proxies \in ProxyPools
    /\ current_proxy_index = 0
    /\ request_count = 0
    /\ a_last = [source |-> "", ret |-> "none"]
    /\ a_request = [w \in Requests |-> NotStarted]

ProxyNext ==
    \/ \E w \in Requests : MakeRequest(w)
    \/ \E w \in Requests : SendRequest(w)

SpecProxy == ProxyInit /\ [][ProxyNext]_vars

(***************************************************************************)
(* From the raw listings of a page to jobs: scrape_monster_web with         *)
(* extract_monster_job_data, scrape_indeed_advanced with                    *)
(* extract_indeed_job_data, and scrape_github_jobs_api.  The same postings  *)
(* are offered to the three scrapers.                                       *)
(***************************************************************************)
\* A raw listing: its title (company and location are those of AcmeCorp, Remote),
\* the id the site attaches to it (data-jk of an Indeed card, 'id' of a GitHub
\* item; <<>> when absent), and whether turning it into a job raises (a card
\* whose markup breaks the extraction, an item whose description or type is null).
RawTitles == { <<"D", "e", "v">>, <<"O", "p", "s">> }
RawIds == { <<>>, <<"j", "k", "1">> }
RawItems == [title : RawTitles, raw_id : RawIds, raises : BOOLEAN]

\* hashlib.md5(text.encode()).hexdigest()[:8]: a value that depends on text only
md5_8(text) == <<"md5", text>>

\* extract_monster_job_data(card, base_url): None when the extraction raises
extract_monster_job_data(card) ==
    IF card.raises THEN <<>>
    ELSE << [title |-> card.title, company |-> AcmeCorp, location |-> Remote,
             source |-> "monster", job_id |-> md5_8(card.title \o AcmeCorp)] >>

\* extract_indeed_job_data(card, config): None when the extraction raises
extract_indeed_job_data(card) ==
    IF card.raises THEN <<>>
    ELSE << [title |-> card.title, company |-> AcmeCorp, location |-> Remote,
             source |-> "indeed_advanced",
             job_id |-> IF card.raw_id # <<>> THEN card.raw_id
                        ELSE md5_8(card.title \o AcmeCorp)] >>

\* for card in job_cards: job = extract(card); if job: jobs.append(job)
\* (extracted[k] is what extract returned for the k-th card, <<>> for None)
RECURSIVE CardLoop(_, _)
CardLoop(extracted, k) ==
    IF k > Len(extracted) THEN <<>>
    ELSE extracted[k] \o CardLoop(extracted, k + 1)

\* for job_data in data: jobs.append(JobListing(...)), inside the one try of
\* scrape_github_jobs_api: the first item that raises ends the loop, and the
\* jobs appended so far are returned
RECURSIVE ItemLoop(_, _)
ItemLoop(data, k) ==
    IF k > Len(data) THEN <<>>
    ELSE IF data[k].raises THEN <<>>
    ELSE << [title |-> data[k].title, company |-> AcmeCorp, location |-> Remote,
             source |-> "github_jobs", job_id |-> data[k].raw_id] >>
         \o ItemLoop(data, k + 1)

ScrapeMonsterPage ==
    /\ "monster" \notin n_done
    /\ n_jobs' = [n_jobs EXCEPT !["monster"] = CardLoop([k \in DOMAIN n_page |-> extract_monster_job_data(n_page[k])], 1)]
    /\ n_done' = n_done \cup {"monster"}
    /\ UNCHANGED n_page
    /\ UNCHANGED <<dedup_vars, scraper_vars, run_vars, gate_vars, rate_vars, api_vars,
                   session_vars, proxy_vars, extract_vars, page_vars>>

ScrapeIndeedPage ==
    /\ "indeed_advanced" \notin n_done
    /\ n_jobs' = [n_jobs EXCEPT !["indeed_advanced"] =
                     CardLoop([k \in DOMAIN n_page |-> extract_indeed_job_data(n_page[k])], 1)]
    /\ n_done' = n_done \cup {"indeed_advanced"}
    /\ UNCHANGED n_page
    /\ UNCHANGED <<dedup_vars, scraper_vars, run_vars, gate_vars, rate_vars, api_vars,
                   session_vars, proxy_vars, extract_vars, page_vars>>

ScrapeGithubPage ==
    /\ "github_jobs" \notin n_done
    /\ n_jobs' = [n_jobs EXCEPT !["github_jobs"] = ItemLoop(n_page, 1)]
    /\ n_done' = n_done \cup {"github_jobs"}
    /\ UNCHANGED n_page
    /\ UNCHANGED <<dedup_vars, scraper_vars, run_vars, gate_vars, rate_vars, api_vars,
                   session_vars, proxy_vars, extract_vars, page_vars>>

NormInit ==
    /\ config \in Configs
    /\ env = {}
    /\ robots_cache = <<>>
    /\ robots_reads = [u \in BaseUrls |-> 0]
    /\ RunIdle
    /\ DedupIdle
    /\ ApiIdle
    /\ SessionIdle
    /\ ProxyIdle
    /\ GateIdle
    /\ RateIdle
    /\ ExtractIdle
    /\ PageIdle
    /\ n_page \in SeqsUpTo(RawItems, MaxItems)
    /\ n_done = {}
    /\ n_jobs = [a \in Adapters |-> <<>>]

NormNext ==
    \/ ScrapeMonsterPage
    \/ ScrapeIndeedPage
    \/ ScrapeGithubPage

SpecNormalize == NormInit /\ [][NormNext]_vars

(***************************************************************************)
(* The fields AdvancedJobScraper and LegalJobScraper read out of a          *)
(* description: extract_job_type_from_description, extract_skills_from_text *)
(* and extract_requirements.                                                *)
(***************************************************************************)
\* words of the descriptions
W_Remote == <<"R", "e", "m", "o", "t", "e">>
W_contract == <<"c", "o", "n", "t", "r", "a", "c", "t">>
W_HYBRID == <<"H", "Y", "B", "R", "I", "D">>
W_PartTime == <<"P", "a", "r", "t", "-", "T", "i", "m", "e">>
W_team == <<"t", "e", "a", "m">>
W_Java == <<"J", "a", "v", "a">>
W_python == <<"p", "y", "t", "h", "o", "n">>
W_SQL == <<"S", "Q", "L">>

Words == {W_Remote, W_contract, W_HYBRID, W_PartTime, W_team,
          W_Java, W_python, W_SQL}

\* ' '.join(words)
RECURSIVE Join(_)
Join(words) ==
    IF Len(words) = 0 THEN <<>>
    ELSE IF Len(words) = 1 THEN words[1]
    ELSE words[1] \o <<" ">> \o Join(Tail(words))

\* term in text
Contains(text, term) ==
    \E i \in 1..(Len(text) - Len(term) + 1) : SubSeq(text, i, i + Len(term) - 1) = term

\* any(term in text for term in terms)
AnyIn(terms, text) == \E term \in terms : Contains(text, term)

RemoteTerms ==
    { <<"r", "e", "m", "o", "t", "e">>,
      <<"w", "o", "r", "k", " ", "f", "r", "o", "m", " ", "h", "o", "m", "e">>,
      <<"w", "f", "h">> }
HybridTerms ==
    { <<"h", "y", "b", "r", "i", "d">>,
      <<"f", "l", "e", "x", "i", "b", "l", "e">> }
PartTimeTerms ==
    { <<"p", "a", "r", "t", "-", "t", "i", "m", "e">>,
      <<"p", "a", "r", "t", " ", "t", "i", "m", "e">> }
ContractTerms ==
    { <<"c", "o", "n", "t", "r", "a", "c", "t">>,
      <<"f", "r", "e", "e", "l", "a", "n", "c", "e">>,
      <<"c", "o", "n", "s", "u", "l", "t", "a", "n", "t">> }

\* Variant of extract_job_type_from_description that looks for the contract terms
\* first.
extract_job_type_contract_first(description) ==
    LET description_lower == lower(description)
    IN  IF AnyIn(ContractTerms, description_lower) THEN "contract"
        ELSE IF AnyIn(RemoteTerms, description_lower) THEN "remote"
        ELSE IF AnyIn(HybridTerms, description_lower) THEN "hybrid"
        ELSE IF AnyIn(PartTimeTerms, description_lower) THEN "part-time"
        ELSE "full-time"

extract_job_type_from_description(description) ==
    LET description_lower == lower(description)
    IN  IF AnyIn(RemoteTerms, description_lower) THEN "remote"
        ELSE IF AnyIn(HybridTerms, description_lower) THEN "hybrid"
        ELSE IF AnyIn(PartTimeTerms, description_lower) THEN "part-time"
        ELSE IF AnyIn(ContractTerms, description_lower) THEN "contract"
        ELSE "full-time"

ExtractJobType ==
    /\ "job_type" \notin e_done
    /\ e_job_type' = extract_job_type_from_description(e_description)
    /\ e_done' = e_done \cup {"job_type"}
    /\ UNCHANGED <<e_words, e_description, e_skills, e_requirements>>
    /\ UNCHANGED <<dedup_vars, scraper_vars, run_vars, gate_vars, rate_vars, api_vars,
                   session_vars, proxy_vars, norm_vars, page_vars>>

\* tech_skills of extract_requirements
tech_skills ==
    << <<"p", "y", "t", "h", "o", "n">>,
       <<"j", "a", "v", "a", "s", "c", "r", "i", "p", "t">>,
       <<"j", "a", "v", "a">>,
       <<"r", "e", "a", "c", "t">>,
       <<"n", "o", "d", "e", ".", "j", "s">>,
       <<"a", "n", "g", "u", "l", "a", "r">>,
       <<"v", "u", "e">>,
       <<"t", "y", "p", "e", "s", "c", "r", "i", "p", "t">>,
       <<"h", "t", "m", "l">>,
       <<"c", "s", "s">>,
       <<"s", "q", "l">>,
       <<"m", "o", "n", "g", "o", "d", "b">>,
       <<"p", "o", "s", "t", "g", "r", "e", "s", "q", "l">>,
       <<"m", "y", "s", "q", "l">>,
       <<"a", "w", "s">>,
       <<"a", "z", "u", "r", "e">>,
       <<"d", "o", "c", "k", "e", "r">>,
       <<"k", "u", "b", "e", "r", "n", "e", "t", "e", "s">>,
       <<"g", "i", "t">>,
       <<"r", "e", "s", "t", " ", "a", "p", "i">>,
       <<"g", "r", "a", "p", "h", "q", "l">>,
       <<"m", "a", "c", "h", "i", "n", "e", " ", "l", "e", "a", "r", "n", "i", "n", "g">>,
       <<"a", "i">>,
       <<"d", "a", "t", "a", " ", "s", "c", "i", "e", "n", "c", "e">>,
       <<"t", "e", "n", "s", "o", "r", "f", "l", "o", "w">>,
       <<"p", "y", "t", "o", "r", "c", "h">> >>

\* skills_database of extract_skills_from_text
skills_database ==
    << <<"p", "y", "t", "h", "o", "n">>,
       <<"j", "a", "v", "a", "s", "c", "r", "i", "p", "t">>,
       <<"j", "a", "v", "a">>,
       <<"r", "e", "a", "c", "t">>,
       <<"n", "o", "d", "e", ".", "j", "s">>,
       <<"a", "n", "g", "u", "l", "a", "r">>,
       <<"v", "u", "e", ".", "j", "s">>,
       <<"t", "y", "p", "e", "s", "c", "r", "i", "p", "t">>,
       <<"h", "t", "m", "l">>,
       <<"c", "s", "s">>,
       <<"s", "q", "l">>,
       <<"m", "o", "n", "g", "o", "d", "b">>,
       <<"p", "o", "s", "t", "g", "r", "e", "s", "q", "l">>,
       <<"m", "y", "s", "q", "l">>,
       <<"a", "w", "s">>,
       <<"a", "z", "u", "r", "e">>,
       <<"g", "c", "p">>,
       <<"d", "o", "c", "k", "e", "r">>,
       <<"k", "u", "b", "e", "r", "n", "e", "t", "e", "s">>,
       <<"g", "i", "t">>,
       <<"r", "e", "s", "t", " ", "a", "p", "i">>,
       <<"g", "r", "a", "p", "h", "q", "l">>,
       <<"m", "a", "c", "h", "i", "n", "e", " ", "l", "e", "a", "r", "n", "i", "n", "g">>,
       <<"a", "i">>,
       <<"d", "a", "t", "a", " ", "s", "c", "i", "e", "n", "c", "e">>,
       <<"t", "e", "n", "s", "o", "r", "f", "l", "o", "w">>,
       <<"p", "y", "t", "o", "r", "c", "h">>,
       <<"p", "a", "n", "d", "a", "s">>,
       <<"s", "p", "r", "i", "n", "g", " ", "b", "o", "o", "t">>,
       <<"d", "j", "a", "n", "g", "o">>,
       <<"f", "l", "a", "s", "k">>,
       <<"e", "x", "p", "r", "e", "s", "s", ".", "j", "s">>,
       <<"l", "a", "r", "a", "v", "e", "l">>,
       <<"s", "y", "m", "f", "o", "n", "y">>,
       <<"r", "e", "d", "i", "s">>,
       <<"e", "l", "a", "s", "t", "i", "c", "s", "e", "a", "r", "c", "h">>,
       <<"j", "e", "n", "k", "i", "n", "s">>,
       <<"c", "i", "/", "c", "d">>,
       <<"a", "g", "i", "l", "e">>,
       <<"s", "c", "r", "u", "m">> >>

\* for skill in skills: if skill in text_lower: found.append(skill.title())
RECURSIVE SkillLoop(_, _, _)
SkillLoop(skills, k, text_lower) ==
    IF k > Len(skills) THEN <<>>
    ELSE (IF Contains(text_lower, skills[k]) THEN <<title(skills[k])>> ELSE <<>>)
         \o SkillLoop(skills, k + 1, text_lower)

\* list[:n]
Take(list, n) == SubSeq(list, 1, IF Len(list) < n THEN Len(list) ELSE n)

extract_skills_from_text(text) == Take(SkillLoop(skills_database, 1, lower(text)), 15)

extract_requirements(description) == Take(SkillLoop(tech_skills, 1, lower(description)), 10)

ExtractSkills ==
    /\ "skills" \notin e_done
    /\ e_skills' = extract_skills_from_text(e_description)
    /\ e_done' = e_done \cup {"skills"}
    /\ UNCHANGED <<e_words, e_description, e_job_type, e_requirements>>
    /\ UNCHANGED <<dedup_vars, scraper_vars, run_vars, gate_vars, rate_vars, api_vars,
                   session_vars, proxy_vars, norm_vars, page_vars>>

ExtractRequirements ==
    /\ "requirements" \notin e_done
    /\ e_requirements' = extract_requirements(e_description)
    /\ e_done' = e_done \cup {"requirements"}
    /\ UNCHANGED <<e_words, e_description, e_job_type, e_skills>>
    /\ UNCHANGED <<dedup_vars, scraper_vars, run_vars, gate_vars, rate_vars, api_vars,
                   session_vars, proxy_vars, norm_vars, page_vars>>

ExtractInit ==
    /\ config = [retry_attempts |-> 3, respect_robots |-> TRUE, delay_min |-> 10]
    /\ env = {}
    /\ robots_cache = <<>>
    /\ robots_reads = [u \in BaseUrls |-> 0]
    /\ RunIdle
    /\ DedupIdle
    /\ ApiIdle
    /\ SessionIdle
    /\ ProxyIdle
    /\ NormIdle
    /\ PageIdle
    /\ GateIdle
    /\ RateIdle
    /\ e_words \in SeqsUpTo(Words, MaxWords)
    /\ e_description = Join(e_words)
    /\ e_done = {}
    /\ e_job_type = ""
    /\ e_skills = <<>>
    /\ e_requirements = <<>>

ExtractNext ==
    \/ ExtractJobType
    \/ ExtractSkills
    \/ ExtractRequirements

SpecExtract == ExtractInit /\ [][ExtractNext]_vars

(***************************************************************************)
(* The page loop of scrape_indeed_advanced: for start in range(0, 100, 10), *)
(* one make_request_with_protection per page, the job cards of the page,    *)
(* then asyncio.sleep(random.uniform(2.0, 4.0)).                            *)
(***************************************************************************)
\* len(range(0, 100, 10))
IndeedPages == 10

\* the for loop goes to its next start value, or is over
PageLoopNext == IF Len(i_pages) + 1 = IndeedPages THEN "returned" ELSE "request"

\* make_request_with_protection returned None (or an empty text): continue
PageRequestFails ==
    /\ i_pc = "request"
    /\ i_pages' = Append(i_pages, [html |-> "none", after_sleep |-> i_slept])
    /\ i_slept' = FALSE
    /\ i_pc' = PageLoopNext
    /\ UNCHANGED <<dedup_vars, scraper_vars, run_vars, gate_vars, rate_vars, api_vars,
                   session_vars, proxy_vars, norm_vars, extract_vars>>

\* the page came with job cards: they are extracted, then the loop sleeps
PageWithCards ==
    /\ i_pc = "request"
    /\ i_pages' = Append(i_pages, [html |-> "cards", after_sleep |-> i_slept])
    /\ i_slept' = FALSE
    /\ i_pc' = "sleep"
    /\ UNCHANGED <<dedup_vars, scraper_vars, run_vars, gate_vars, rate_vars, api_vars,
                   session_vars, proxy_vars, norm_vars, extract_vars>>

\* the page came without job cards: break
PageWithoutCards ==
    /\ i_pc = "request"
    /\ i_pages' = Append(i_pages, [html |-> "empty", after_sleep |-> i_slept])
    /\ i_slept' = FALSE
    /\ i_pc' = "returned"
    /\ UNCHANGED <<dedup_vars, scraper_vars, run_vars, gate_vars, rate_vars, api_vars,
                   session_vars, proxy_vars, norm_vars, extract_vars>>

\* await asyncio.sleep(random.uniform(2.0, 4.0)) at the end of the loop body
PageSleep ==
    /\ i_pc = "sleep"
    /\ i_slept' = TRUE
    /\ i_pc' = IF Len(i_pages) = IndeedPages THEN "returned" ELSE "request"
    /\ UNCHANGED i_pages
    /\ UNCHANGED <<dedup_vars, scraper_vars, run_vars, gate_vars, rate_vars, api_vars,
                   session_vars, proxy_vars, norm_vars, extract_vars>>

PageInit ==
    /\ config = [retry_attempts |-> 3, respect_robots |-> TRUE, delay_min |-> 10]
    /\ env = {}
    /\ robots_cache = <<>>
    /\ robots_reads = [u \in BaseUrls |-> 0]
    /\ RunIdle
    /\ DedupIdle
    /\ ApiIdle
    /\ SessionIdle
    /\ ProxyIdle
    /\ NormIdle
    /\ ExtractIdle
    /\ GateIdle
    /\ RateIdle
    /\ PageIdle

PageNext ==
    \/ PageRequestFails
    \/ PageWithCards
    \/ PageWithoutCards
    \/ PageSleep

SpecPages == PageInit /\ [][PageNext]_vars

(***************************************************************************)
(* Deduplicator claims                                                     *)
(***************************************************************************)
\* The deduplicator received exactly the two listings of the threshold example, in
\* this order.
ThresholdExample ==
    /\ d_pc = "done"
    /\ Len(d_all_jobs) = 2
    /\ identifier(d_all_jobs[1]) = KeyRemote
    /\ identifier(d_all_jobs[2]) = KeyRemoteUSA

\* C1 as stated: for the keys "senior python developer_acme corp_remote" and
\* "senior python developer_acme corp_remote usa", in this order, the Jaccard
\* similarity of the '_'-separated token sets is above 0.85 and only the first
\* listing is retained.
C1_AsStated ==
    ThresholdExample =>
        /\ Above085(similarity_score(KeyRemoteUSA, KeyRemote))
        /\ d_unique_jobs = <<d_all_jobs[1]>>

\* C1 amended: for these two keys the Jaccard similarity of the '_'-separated
\* token sets is 2/4 = 0.5, which is not above 0.85, and remove_duplicates_advanced
\* retains both listings, in input order.
C1_ThresholdExampleKeepsBoth ==
    ThresholdExample =>
        /\ similarity_score(KeyRemoteUSA, KeyRemote) = [num |-> 2, den |-> 4]
        /\ ~Above085(similarity_score(KeyRemoteUSA, KeyRemote))
        /\ d_unique_jobs = d_all_jobs

\* C1 witness: the two listings of the example came from different sources and
\* the deduplicator has run.
C1_Witness ==
    /\ ThresholdExample
    /\ d_all_jobs[1].source = "indeed_advanced"
    /\ d_all_jobs[2].source = "glassdoor_advanced"

\* C2: Merge(Merge(L)) = Merge(L), same listings in the same order, for
\* remove_duplicates_advanced and for remove_duplicates.
C2_DedupIdempotent ==
    d_pc = "done" =>
        /\ d_unique_again = d_unique_jobs
        /\ d_exact_again = d_exact_jobs

\* C2 witness: both deduplicators dropped something, kept at least two listings
\* and have been applied to their own output.
C2_Witness ==
    /\ d_pc = "done"
    /\ Len(d_unique_jobs) >= 2
    /\ Len(d_unique_jobs) < Len(d_exact_jobs)
    /\ Len(d_exact_jobs) < Len(d_all_jobs)

\* out keeps listings of jobs in their input order, keeps the first one, and every
\* listing it drops is a duplicate (Dup) of a retained listing that stands earlier
\* in jobs and comes from a source no later in the source order.
OrderAndTieBreak(jobs, out, Dup(_, _)) ==
    /\ \A k \in DOMAIN out : out[k].oid \in DOMAIN jobs /\ jobs[out[k].oid] = out[k]
    /\ \A k \in DOMAIN out : k > 1 => out[k - 1].oid < out[k].oid
    /\ jobs # <<>> => (out # <<>> /\ out[1] = jobs[1])
    /\ \A i \in DOMAIN jobs :
           (\A k \in DOMAIN out : out[k].oid # i) =>
               \E k \in DOMAIN out :
                   /\ out[k].oid < i
                   /\ Dup(jobs[i], out[k])
                   /\ SourceRank(AdvancedSourceOrder, out[k].source)
                          <= SourceRank(AdvancedSourceOrder, jobs[i].source)

FuzzyDup(a, b) == Above085(similarity_score(identifier(a), identifier(b)))
ExactDup(a, b) == identifier(a) = identifier(b)

\* C3: the output of Merge is a subsequence of its input, the first input listing
\* is retained, and a discarded listing duplicates a retained listing that stands
\* earlier in the input, hence comes from a source no later in the order in which
\* the orchestrator concatenated the per-source results.
C3_OrderAndTieBreak ==
    d_pc = "done" =>
        /\ OrderAndTieBreak(d_all_jobs, d_unique_jobs, FuzzyDup)
        /\ OrderAndTieBreak(d_all_jobs, d_exact_jobs, ExactDup)

\* C3 witness: a listing of the second source was discarded as a near-duplicate
\* (not an equal key) of a retained listing of the first source.
C3_Witness ==
    /\ d_pc = "done"
    /\ \E i \in DOMAIN d_all_jobs :
           /\ d_all_jobs[i].source = "glassdoor_advanced"
           /\ \A k \in DOMAIN d_unique_jobs : d_unique_jobs[k].oid # i
           /\ \E k \in DOMAIN d_unique_jobs :
                  /\ d_unique_jobs[k].source = "indeed_advanced"
                  /\ FuzzyDup(d_all_jobs[i], d_unique_jobs[k])
                  /\ ~ExactDup(d_all_jobs[i], d_unique_jobs[k])

(***************************************************************************)
(* Claims on check_robots_txt                                              *)
(***************************************************************************)
\* C4 as stated: with respect_robots on, when the retrieval of robots.txt for a
\* base URL fails, the call returns true and a decision for that base URL is in
\* robots_cache, so robots.txt of that base URL is read at most once however often
\* check_robots_txt is called for it.
C4_AsStated ==
    /\ g_last.read = "raised" => g_last.ret = TRUE
    /\ \A u \in g_failed : u \in DOMAIN robots_cache /\ robots_reads[u] <= 1

(***************************************************************************)
(* Claims on a run of scrape_jobs_comprehensive                            *)
(***************************************************************************)
\* the run holds no listing of source name anywhere
NoListingOf(name) ==
    /\ \A k \in DOMAIN src_jobs : src_jobs[k].source # name
    /\ \A k \in DOMAIN all_jobs : all_jobs[k].source # name
    /\ \A k \in DOMAIN unique_jobs : unique_jobs[k].source # name

\* a credential for source name is configured
Credential(name) == api_key_env_var(name) \in env

\* C5 as stated: a source whose fetch failed with a transient error (timeout, 5xx)
\* on every attempt has had exactly retry_attempts fetches issued when its scraper
\* returns its (empty) result.
C5_AsStated ==
    \A s \in SourceNames :
        outcome[s] \in {"timeout", "http_503"} =>
            /\ fetches[s] = config.retry_attempts
            /\ NoListingOf(s)

\* C6: an API_ONLY source without credential issues no fetch, is not checked
\* against robots.txt, contributes no listing, records no error, and once the
\* loop has visited it the run is at a later source (or merging, or done).
C6_ApiOnlySkip ==
    \A i \in DOMAIN job_sources :
        LET src == job_sources[i]
            s == src.name
        IN  (src.legal_status = "API_ONLY" /\ ~Credential(s)) =>
                /\ fetches[s] = 0
                /\ gate[s] = "none"
                /\ robots_reads[src.base_url] = 0
                /\ NoListingOf(s)
                /\ outcome[s] = "none"
                /\ path[s] \in {"none", "skip"}
                /\ path[s] = "skip" <=> idx > i

\* C6 witness: the run is done, linkedin (API_ONLY) had no credential and was
\* skipped, and a source after it was fetched and has a listing in the result.
C6_Witness ==
    /\ pc = "done"
    /\ ~Credential("linkedin")
    /\ path["linkedin"] = "skip"
    /\ fetches["monster"] = 1
    /\ \E k \in DOMAIN unique_jobs : unique_jobs[k].source = "monster"

\* C7: an API_PREFERRED or API_AVAILABLE source takes the API path whenever its
\* credential is configured and the HTML path only if it is not; a
\* SCRAPING_ALLOWED source takes the HTML path only; and the scraper that runs
\* (scrape_via_api, scrape_via_web) is the one of the selected path.
C7_StrategySelection ==
    /\ \A i \in DOMAIN job_sources :
           LET src == job_sources[i]
               s == src.name
           IN  /\ i < idx => path[s] # "none"
               /\ path[s] # "none" =>
                   /\ src.legal_status \in {"API_PREFERRED", "API_AVAILABLE"} =>
                          /\ path[s] \in {"api", "web"}
                          /\ Credential(s) => path[s] = "api"
                          /\ path[s] = "web" => ~Credential(s)
                   /\ src.legal_status = "SCRAPING_ALLOWED" => path[s] = "web"
    /\ pc = "api" => path[cur.name] = "api"
    /\ pc \in {"gate", "web"} => path[cur.name] = "web"
    /\ pc \in {"fetch", "collect", "delay"} => path[cur.name] \in {"api", "web"}

\* C7 witness: in one finished run an API_PREFERRED source with credential and an
\* API_AVAILABLE source with credential went the API path, an API_PREFERRED source
\* without credential and a SCRAPING_ALLOWED source went the HTML path.
C7_Witness ==
    /\ pc = "done"
    /\ Credential("indeed") /\ path["indeed"] = "api"
    /\ Credential("github_jobs") /\ path["github_jobs"] = "api" /\ fetches["github_jobs"] = 1
    /\ ~Credential("stackoverflow_jobs") /\ path["stackoverflow_jobs"] = "web"
    /\ path["dice"] = "web" /\ fetches["dice"] = 1

Passed == {"allowed", "off", "unreadable"}

\* C8: a page is fetched on the HTML path only after check_robots_txt was called
\* for the source and returned true; a source for which it returned false has no
\* fetch (hence no retry), no listing and no error, and the loop goes on from it;
\* on the API path check_robots_txt is not called and no robots.txt is read.
C8_Gating ==
    /\ \A i \in DOMAIN job_sources :
           LET src == job_sources[i]
               s == src.name
           IN  /\ (path[s] = "web" /\ fetches[s] > 0) => gate[s] \in Passed
               /\ gate[s] = "denied" =>
                      /\ fetches[s] = 0
                      /\ NoListingOf(s)
                      /\ outcome[s] = "none"
                      /\ idx = i => pc \in {"collect", "delay"}
               /\ path[s] \in {"api", "skip"} =>
                      /\ gate[s] = "none"
                      /\ robots_reads[src.base_url] = 0
    /\ (pc \in {"web", "fetch"} /\ path[cur.name] = "web") => gate[cur.name] \in Passed

\* C8 witness: in one finished run robots.txt refused monster, allowed dice, whose
\* page was then fetched, and github_jobs was fetched on the API path.
C8_Witness ==
    /\ pc = "done"
    /\ gate["monster"] = "denied"
    /\ gate["dice"] = "allowed" /\ fetches["dice"] = 1
    /\ path["github_jobs"] = "api" /\ fetches["github_jobs"] = 1
    /\ gate["weworkremotely"] \in Passed

(***************************************************************************)
(* Claims on respectful_delay                                              *)
(***************************************************************************)
\* the 'rate_limit' the registry configures for source name
ConfiguredMinDelay(name) ==
    job_sources[CHOOSE i \in DOMAIN job_sources : job_sources[i].name = name].rate_limit

Max(a, b) == IF a >= b THEN a ELSE b

C10_AsStated ==
    r_source # "" =>
        LET base == Max(ConfiguredMinDelay(r_source), config.delay_min)
        IN  /\ r_delay >= base
            /\ r_delay <= base + ConfiguredMinDelay(r_source)

(***************************************************************************)
(* Claims on the order of delay and fetch                                  *)
(***************************************************************************)
\* a fetch to the observed source has just been issued
JustFetchedWatched == r_pc = "delay" /\ rcur.name = r_watch /\ r_gap = 0

\* C11 as stated: when a fetch is issued to a source, the respectful_delay
\* completed last before it was a delay for that same source.
C11_AsStated ==
    JustFetchedWatched => r_source = r_watch

(***************************************************************************)
(* Claims on the run as a whole                                            *)
(***************************************************************************)
\* source s failed: robots.txt refused it, or its fetch raised, answered with a
\* status other than 200, or could not be read to the end
Failed(s) ==
    \/ gate[s] = "denied"
    \/ outcome[s] \in {"timeout", "http_503", "http_404", "parse_error"}

IsPrefix(a, b) == Len(a) <= Len(b) /\ SubSeq(b, 1, Len(a)) = a

EndToEndScenario ==
    /\ gate["monster"] = "allowed"
    /\ ~Credential("linkedin")
    /\ Len(all_jobs) = 2
    /\ all_jobs[1].source = "monster" /\ all_jobs[2].source = "monster"
    /\ identifier(all_jobs[1]) # identifier(all_jobs[2])

\* C13 as stated: the caller of scrape_jobs_for_api gets, for the run of the
\* scenario, a result with totalJobs = 2, a per-source count of 2 for monster and
\* of 0 for linkedin, and robots respected.
C13_AsStated ==
    (pc = "returned" /\ EndToEndScenario) =>
        /\ api_result.success = "returned"
        /\ api_result.body.totalJobs = 2
        /\ api_result.body.robotsTxtRespected = TRUE
        /\ {"monster", "linkedin"} \subseteq DOMAIN api_result.body.jobsBySource
        /\ api_result.body.jobsBySource["monster"] = 2
        /\ api_result.body.jobsBySource["linkedin"] = 0

\* the loop is over: merging, or past it
LoopOver == pc \in {"merge", "done", "returned"}

\* C14, for LegalJobScraper.scrape_jobs_comprehensive (checked under FairSpec):
\* the sources are visited one by one in the order of job_sources, each
\* once (the sources visited are those before the loop position, and a visit is
\* never repeated); the merge is one step from "merge" to "done", the only one
\* that sets the result; once the loop is over nothing is selected, checked
\* against robots.txt or fetched; and every run reaches "done".
C14_StateOrder ==
    /\ [](\A i \in DOMAIN job_sources :
             path[job_sources[i].name] # "none" <=> (i < idx \/ (i = idx /\ pc # "select")))
    /\ [](LoopOver <=> idx = Len(job_sources) + 1)
    /\ [][/\ idx' \in {idx, idx + 1}
          /\ \A s \in SourceNames : path[s] # "none" => path'[s] = path[s]
          /\ unique_jobs' # unique_jobs => (pc = "merge" /\ pc' = "done")
          /\ pc = "merge" => pc' = "done"
          /\ LoopOver => /\ LoopOver'
                         /\ pc' # "merge"
                         /\ UNCHANGED <<idx, path, gate, fetches, all_jobs, robots_reads>>]_vars
    /\ <>(pc \in {"done", "returned"})

\* C14 witness: a run is done in which all ten sources were visited and the
\* merge discarded a listing.
C14_Witness ==
    /\ pc = "done"
    /\ \A s \in SourceNames : path[s] # "none"
    /\ Len(all_jobs) = 2
    /\ Len(unique_jobs) = 1

\* C14: one run visits each configured source once, in the order of the
\* registry, before it merges.  For AdvancedJobScraper.scrape_all_sources_advanced
\* the registry is advanced_sources and a visit leaves an entry in
\* source_results: once the run is past its sources, every configured source
\* has an entry.
C14_AsStated ==
    d_pc \in {"dedup", "again", "done"} =>
        \A i \in DOMAIN advanced_sources : advanced_sources[i] \in DOMAIN d_source_results

\* ScrapingConfig has one time limit, timeout (the limit of a single request,
\* ClientTimeout(total=timeout)); no field is a deadline of the run.  A request
\* that ran into the limit has taken that long, so the run of a scraper whose
\* deadline is not above its request timeout is past its deadline.
PastDeadlineAt(i) == outcome[job_sources[i].name] = "timeout"

\* C15: once the run's deadline is exceeded, no further fetch is issued to any
\* source: after a source whose request used up the time limit, no later source
\* is fetched.
C15_AsStated ==
    \A i, j \in DOMAIN job_sources :
        (i < j /\ PastDeadlineAt(i)) => fetches[job_sources[j].name] = 0

Sum(f, S) ==
    LET RECURSIVE Acc(_)
        Acc(R) == IF R = {} THEN 0
                  ELSE LET x == CHOOSE y \in R : TRUE IN f[x] + Acc(R \ {x})
    IN Acc(S)

Calls == Cardinality({w \in Requests : a_request[w].st # "idle"})

\* C17: with proxies in use and a pool of N proxies, after n calls of
\* get_next_proxy, whatever the sources of the requests and whatever
\* rotation_interval says, the position has advanced once for each started group
\* of 5 calls, modulo N; the proxy returned is the one at the position, an element
\* of the pool, and the position is within 0..N-1.
C17_RotationCadence ==
    /\ current_proxy_index \in 0..(Len(proxies) - 1)
    /\ (a_config.use_proxies /\ Calls > 0) =>
          /\ current_proxy_index = ((Calls + 4) \div 5) % Len(proxies)
          /\ a_last.ret = proxies[current_proxy_index + 1]
          /\ a_last.ret \in SetOf(proxies)
          /\ \A w \in Requests : a_request[w].st # "idle" =>
                 /\ a_request[w].index = ((w + 4) \div 5) % Len(proxies)
                 /\ a_request[w].proxy = proxies[a_request[w].index + 1]

\* eleven calls, hence three rotations, with rotation_interval set to 2 and the
\* last request for glassdoor
C17_Witness ==
    /\ a_config.use_proxies
    /\ a_rotation_interval = 2
    /\ Calls = 11
    /\ Len(proxies) = 3
    /\ current_proxy_index = 0
    /\ a_request[5].index = 1 /\ a_request[6].index = 2 /\ a_request[10].index = 2
    /\ a_last.source = "glassdoor_advanced"

\* AdvancedScrapingConfig has no switch for the rotation of proxies; the switches
\* that bear on it are use_proxies and user_agent_rotation.
RotationDisabled == ~a_config.use_proxies \/ ~a_config.user_agent_rotation

\* C18: with rotation disabled, every get_next_proxy call returns the first
\* proxy of the pool.
C18_AsStated ==
    /\ (RotationDisabled /\ a_last.ret # "none") => a_last.ret = proxies[1]
    /\ \A w \in Requests :
          (RotationDisabled /\ a_request[w].st # "idle") => a_request[w].proxy = proxies[1]

\* C19: get_next_proxy calls of concurrent requests do not lose an update (after
\* n calls request_count is n), and the position a request holds when it is
\* about to go out is the current position or the one before it.
C19_AsStated ==
    a_config.use_proxies =>
        /\ request_count = Calls
        /\ \A w \in Requests : a_request[w].st = "suspended" =>
               \/ a_request[w].index = current_proxy_index
               \/ (a_request[w].index + 1) % Len(proxies) = current_proxy_index

\* C20: the cache is keyed by base URL and holds entries only for URLs whose
\* robots.txt was read, and only with the switch on; once a URL has an entry, no
\* call reads its robots.txt again or replaces the entry, and every call for
\* that URL, whatever the endpoint, returns what the entry says.
C20_CacheReuse ==
    /\ [](/\ DOMAIN robots_cache \subseteq GateUrls
          /\ \A u \in DOMAIN robots_cache : robots_reads[u] >= 1
          /\ ~config.respect_robots => robots_cache = <<>>)
    /\ [][\A u \in DOMAIN robots_cache :
            /\ u \in DOMAIN robots_cache'
            /\ robots_cache'[u] = robots_cache[u]
            /\ robots_reads'[u] = robots_reads[u]
            /\ (g_calls' = g_calls + 1 /\ g_last'.base_url = u) =>
                   /\ g_last'.read = "none"
                   /\ g_last'.ret = can_fetch(robots_cache[u], g_last'.endpoint)]_vars

\* the third call, for a URL read once before, was answered from the cache
\* with a refusal, while the other URL has no entry
C20_Witness ==
    /\ config.respect_robots
    /\ g_calls = 3
    /\ g_last.base_url \in DOMAIN robots_cache
    /\ g_last.read = "none"
    /\ g_last.ret = FALSE
    /\ robots_reads[g_last.base_url] = 1
    /\ \A u \in GateUrls \ {g_last.base_url} : robots_reads[u] = 0

\* the raw listings of the page whose extraction does not raise
Normalizable == SelectSeq(n_page, LAMBDA item : ~item.raises)

\* C21: a raw listing whose normalization fails is the only one dropped: each
\* scraper returns one job for every other raw listing of the page, before and
\* after the failing one, in the order of the page, on the HTML path (monster,
\* indeed) and on the API path (github) alike.
C21_AsStated ==
    \A a \in n_done :
        /\ Len(n_jobs[a]) = Len(Normalizable)
        /\ \A k \in DOMAIN n_jobs[a] : n_jobs[a][k].title = Normalizable[k].title

\* C22: when an exception leaves the scraping run, the caller of
\* scrape_jobs_for_api gets a result value, not an exception: the result of the
\* except branch, with totalJobs = 0 and an empty jobs list.
C22_AsStated ==
    pc = "failed" =>
        /\ api_result.success = "failed"
        /\ api_result.body.totalJobs = 0
        /\ api_result.body.jobs = <<>>

\* the jobs the scrapers have returned for the page
ProducedJobs == UNION { SetOf(n_jobs[a]) : a \in n_done }

\* C23: the identifier of a listing depends on its title, company and location
\* only: two jobs produced with equal title, company and location have equal
\* job_id, whichever scraper (HTML card or API item) produced them.
C23_AsStated ==
    \A x, y \in ProducedJobs :
        (x.title = y.title /\ x.company = y.company /\ x.location = y.location)
            => x.job_id = y.job_id

\* the description has one of the words
Has(ws) == \E k \in DOMAIN e_words : e_words[k] \in ws

\* the classes in the order of their priority, each with the words of the
\* descriptions that carry one of its keywords (in whatever case)
JobTypeClasses ==
    << [type |-> "remote", words |-> {W_Remote}],
       [type |-> "hybrid", words |-> {W_HYBRID}],
       [type |-> "part-time", words |-> {W_PartTime}],
       [type |-> "contract", words |-> {W_contract}] >>

\* C24: the job type inferred from a description is the first class, in the
\* order remote, hybrid, part-time, contract, of which the description has a
\* keyword, in whatever case, and full-time when it has none; remote and
\* contract keywords together give remote, hybrid and part-time keywords
\* together give hybrid.
C24_JobTypePriority ==
    "job_type" \in e_done =>
        LET matching == {i \in DOMAIN JobTypeClasses : Has(JobTypeClasses[i].words)}
        IN  /\ matching = {} => e_job_type = "full-time"
            /\ \A i \in matching :
                  (\A j \in matching : i <= j) => e_job_type = JobTypeClasses[i].type
            /\ (Has({W_Remote}) /\ Has({W_contract})) => e_job_type = "remote"
            /\ (Has({W_HYBRID}) /\ Has({W_PartTime}) /\ ~Has({W_Remote}))
                  => e_job_type = "hybrid"

\* a description with a part-time word before a hybrid word was classified
C24_Witness ==
    /\ "job_type" \in e_done
    /\ e_words = <<W_PartTime, W_contract, W_HYBRID>>
    /\ e_job_type = "hybrid"

\* where a skill first appears in the description
FirstAt(skill) ==
    LET text == lower(e_description)
        at == {i \in 1..(Len(text) - Len(skill) + 1) :
                   SubSeq(text, i, i + Len(skill) - 1) = skill}
    IN  CHOOSE i \in at : \A j \in at : i <= j

\* The tags are title-cased vocabulary skills, at most cap of them, in the order
\* in which the skills first appear in the description, and a skill of the
\* description that was left out appears no earlier than the ones kept.
TagsInTextOrder(tags, vocabulary, cap) ==
    LET present == {s \in SetOf(vocabulary) : Contains(lower(e_description), s)}
    IN  /\ Len(tags) <= cap
        /\ \A k \in DOMAIN tags : \E s \in present : tags[k] = title(s)
        /\ \A k \in 1..(Len(tags) - 1) : FirstAt(lower(tags[k])) <= FirstAt(lower(tags[k + 1]))
        /\ \A s \in present :
              title(s) \notin SetOf(tags) =>
                  /\ Len(tags) = cap
                  /\ \A k \in DOMAIN tags : FirstAt(lower(tags[k])) <= FirstAt(s)

\* C25: the requirement tags are listed in the order in which the skills first
\* appear in the description, are vocabulary skills in title case, at most 10 for
\* extract_requirements and 15 for extract_skills_from_text, the earliest in
\* the text being kept.
C25_AsStated ==
    /\ "skills" \in e_done => TagsInTextOrder(e_skills, skills_database, 15)
    /\ "requirements" \in e_done => TagsInTextOrder(e_requirements, tech_skills, 10)

\* the '_'-separated tokens of the keys of jobs[i..]
RECURSIVE KeyTokens(_, _)
KeyTokens(jobs, i) ==
    IF i > Len(jobs) THEN <<>>
    ELSE LET pieces == split(identifier(jobs[i]), "_")
         IN  <<{pieces[k] : k \in 1..Len(pieces)}>> \o KeyTokens(jobs, i + 1)

\* Jaccard similarity of two token sets above 0.85
JaccardAbove085(set1, set2) ==
    100 * Cardinality(set1 \cap set2) > 85 * Cardinality(set1 \cup set2)

\* listing i of all_jobs is in the output of remove_duplicates_advanced
Retained(i) == \E k \in DOMAIN d_unique_jobs : d_unique_jobs[k].oid = i

\* C26: in the output of remove_duplicates_advanced no two listings have keys
\* of Jaccard similarity above 0.85; every listing left out has a similarity
\* above 0.85 to a retained listing that stands before it in the input; and a
\* listing whose similarity to every retained listing before it is 0.85 or less
\* is retained.
C26_DedupOutput ==
    d_pc = "done" =>
        LET D == DOMAIN d_all_jobs
            R == {d_unique_jobs[k].oid : k \in DOMAIN d_unique_jobs}
            tokens == KeyTokens(d_all_jobs, 1)
            Sim(i, j) == JaccardAbove085(tokens[i], tokens[j])
        IN  /\ \A k \in DOMAIN d_unique_jobs :
                  d_unique_jobs[k].oid \in D /\ d_all_jobs[d_unique_jobs[k].oid] = d_unique_jobs[k]
            /\ \A i, j \in R : i < j => ~Sim(i, j)
            /\ \A i \in D \ R : \E k \in R : k < i /\ Sim(k, i)
            /\ \A i \in D : (\A k \in R : k < i => ~Sim(k, i)) => i \in R

\* Of four listings, the second was left out for its 6/7 similarity to the first,
\* and the third, which has 5/7 with the first and 6/7 with the second (left
\* out), was retained together with a fourth.
C26_Witness ==
    /\ d_pc = "done"
    /\ Len(d_all_jobs) = 4
    /\ Retained(1) /\ ~Retained(2) /\ Retained(3) /\ Retained(4)
    /\ FuzzyDup(d_all_jobs[3], d_all_jobs[2])
    /\ ~ExactDup(d_all_jobs[2], d_all_jobs[1])
    /\ similarity_score(identifier(d_all_jobs[3]), identifier(d_all_jobs[1]))
           = [num |-> 5, den |-> 7]

\* C27: between two consecutive page requests of scrape_indeed_advanced the
\* inter-page sleep is always performed, also when the earlier request returned
\* no HTML; at most 10 page requests are issued; and no page is requested after
\* a fetched page without job cards.
C27_AsStated ==
    /\ \A k \in 2..Len(i_pages) : i_pages[k].after_sleep
    /\ Len(i_pages) <= IndeedPages
    /\ \A k \in 1..(Len(i_pages) - 1) : i_pages[k].html # "empty"

\* C28: in the result of scrape_all_sources_advanced, totalJobs (the length of
\* the jobs list) equals the sum of the per-source counts in sourceResults.
C28_AsStated ==
    d_pc = "done" =>
        Len(d_unique_jobs) = Sum(d_source_results, DOMAIN d_source_results)

\* C29: a source whose descriptor says its API needs no credential
\* (api_available, requires_api_key = False) is fetched through its API path
\* whether or not <SOURCE>_API_KEY is set: once the loop has selected its
\* strategy the path is the API path, never the HTML path.
C29_AsStated ==
    \A i \in DOMAIN job_sources :
        LET src == job_sources[i]
            s == src.name
        IN  (src.api_available /\ ~src.requires_api_key /\ path[s] # "none") =>
                path[s] = "api"

\* C30: an API_ONLY source is skipped only when no credential is present; with
\* its credential in the environment it is processed through the API path.
C30_AsStated ==
    \A i \in DOMAIN job_sources :
        LET src == job_sources[i]
            s == src.name
        IN  (src.legal_status = "API_ONLY" /\ path[s] # "none") =>
                /\ path[s] = "skip" => ~Credential(s)
                /\ Credential(s) => path[s] = "api"

====
